---- MODULE Spec2Model ----
(***************************************************************************)
(* CortexStream: block allocator (buddy system), paged KV cache, request   *)
(* scheduler and engine loop, as state machines translated from            *)
(* src/src/cache/kv_cache.cpp, src/src/engine/scheduler.cpp,               *)
(* src/src/engine/engine.cpp and src/src/request/request.cpp.              *)
(***************************************************************************)
EXTENDS Integers, Sequences, FiniteSets, TLC

(***************************************************************************)
(* Bounds of the model.                                                    *)
(***************************************************************************)
MaxTotalBlocks == 8
\* largest pool the KV cache runs construct
MaxKVBlocks == 4
\* largest token count handed to allocateFor / appendToken in the KV runs
MaxKVTokens == 4
\* the blockSize the KV cache is constructed with
BlockSize == 2
\* number of request ids the KV cache is called with
NumKVIds == 3
\* number of request handles a client creates
NumRequests == 2
\* largest prompt length and largest maxTokens of a request
MaxPromptLen == 1
MaxMaxTokens == 2
\* largest maxBatchSize a scheduler is constructed with
MaxBatch == 2
\* number of submitRequest calls of a client that submits handles again
MaxSubmits == 2
\* number of token ids the backend samples from (token ids 0 .. VocabSize-1)
VocabSize == 2
\* number of times the backend throws in a run
MaxBackendFailures == 2

VARIABLES
    \* ---- KVBlockAllocator ----
    totalBlocks_,       \* size_t totalBlocks_
    freeList_,          \* std::vector<bool> freeList_  (index 0..totalBlocks_-1, TRUE = free)
    buddyFreeLists_,    \* map: size class -> deque of start indices
    \* ---- client of the allocator ----
    handles,            \* the live handles returned by allocate and not yet freed
    \* ---- KVCache ----
    blockSize_,         \* size_t blockSize_
    sequences_,         \* map: request id -> SequenceKVEntry
    \* ---- last call made on a component, with its argument and result ----
    lastCall,
    \* ---- Request (one entry per request handle) ----
    id_,                \* std::string id_
    promptLen,          \* number of prompt tokens
    maxTokens_,         \* int maxTokens_
    state,              \* RequestState
    generatedTokens_,   \* std::vector<int> generatedTokens_
    stopTokens_,        \* std::vector<int> stopTokens_ (as a set)
    cancelled_,         \* std::atomic<bool> cancelled_
    samplingParams_,    \* SamplingParams samplingParams_
    notified,           \* the calls tokenCallback_ has received: <<token, finished>>
    \* ---- Scheduler ----
    maxBatchSize,       \* int maxBatchSize
    pendingQueue,       \* std::queue<shared_ptr<Request>>
    activeRequests,     \* std::vector<shared_ptr<Request>>
    finishedRequests,   \* std::vector<shared_ptr<Request>>
    batch,              \* the Batch last returned by buildPrefillBatch / buildDecodeBatch
    \* ---- InferenceEngine ----
    running,            \* std::atomic<bool> running
    paused,             \* std::atomic<bool> paused
    stats,              \* EngineStats: tokensProcessed, requestsCompleted, requestsFailed
    pc,                 \* where the engine thread is in run() / mainLoop()
    pcOther,            \* where a second thread that called run() is
    \* ---- history of the calls on the pending queue ----
    submitLog,          \* the handles pushed by submitRequest, in order
    admitLog,           \* the handles popped by acceptNewRequests, in order
    thrownBatch         \* the requests of the last prefill / decode batch, if its backend call threw

allocVars == <<totalBlocks_, freeList_, buddyFreeLists_>>
kvVars == <<blockSize_, sequences_>>
\* the fields of a request that neither the scheduler nor the engine writes
reqFixed == <<id_, promptLen, maxTokens_, stopTokens_, cancelled_, samplingParams_, notified>>
reqVars == <<reqFixed, state, generatedTokens_>>
schedVars == <<maxBatchSize, pendingQueue, activeRequests, finishedRequests, batch>>
engineVars == <<running, paused, stats, pc, pcOther>>
logVars == <<submitLog, admitLog, thrownBatch>>
vars == <<totalBlocks_, freeList_, buddyFreeLists_, handles, blockSize_, sequences_, lastCall,
          id_, promptLen, maxTokens_, state, generatedTokens_,
          stopTokens_, cancelled_, samplingParams_, notified,
          maxBatchSize, pendingQueue, activeRequests, finishedRequests, batch,
          running, paused, stats, pc, pcOther, submitLog, admitLog,
          thrownBatch>>

(***************************************************************************)
(* KVHandle (kv_cache.h)                                                   *)
(***************************************************************************)
KVHandle(start, n) == [startBlockIndex |-> start, numBlocks |-> n]

InvalidHandle == KVHandle(-1, 0)

isValid(h) == h.startBlockIndex >= 0 /\ h.numBlocks > 0

\* the block range [startBlockIndex, startBlockIndex + numBlocks) of a handle
Range(h) == h.startBlockIndex .. (h.startBlockIndex + h.numBlocks - 1)

(***************************************************************************)
(* KVBlockAllocator.  The allocator state is the record                    *)
(*   [total, fl, lists]   = (totalBlocks_, freeList_, buddyFreeLists_).    *)
(***************************************************************************)
RECURSIVE PowersUpTo(_, _)
\* the powers of two p, 2p, 4p, ... that are <= n
PowersUpTo(p, n) == IF p > n THEN {} ELSE {p} \cup PowersUpTo(2 * p, n)

RECURSIVE LargestPower(_, _)
\* while (largestPower * 2 <= totalBlocks) largestPower *= 2
LargestPower(p, n) == IF 2 * p <= n THEN LargestPower(2 * p, n) ELSE p

\* buddyFreeLists_[k] with std::map::operator[] semantics: a missing key reads as
\* an empty deque
ListAt(lists, k) == IF k \in DOMAIN lists THEN lists[k] ELSE <<>>

\* buddyFreeLists_[k] = v, creating the key when it is missing
SetList(lists, k, v) == [x \in DOMAIN lists \cup {k} |-> IF x = k THEN v ELSE lists[x]]

\* the marking loop running one block too far (i <= start + n)
MarkBlocksOneTooFar(fl, start, n, val) ==
    [i \in DOMAIN fl |-> IF i >= start /\ i <= start + n THEN val ELSE fl[i]]

\* for (i = start; i < start + n; ++i) if (0 <= i < totalBlocks_) freeList_[i] = val
MarkBlocks(fl, start, n, val) ==
    [i \in DOMAIN fl |-> IF i >= start /\ i < start + n THEN val ELSE fl[i]]

initBuddySystem(total) ==
    LET keys == PowersUpTo(1, total)
        largestPower == LargestPower(1, total)
        empty == [k \in keys |-> <<>>]
    IN  IF largestPower <= total
        THEN SetList(empty, largestPower, <<0>>)
        ELSE empty

\* KVBlockAllocator::KVBlockAllocator(totalBlocks)
NewAllocator(total) ==
    [total |-> total,
     fl    |-> [i \in 0 .. (total - 1) |-> TRUE],
     lists |-> initBuddySystem(total)]

RECURSIVE buddyAllocate(_, _)

\* buddyAllocate with the split pushing buddy1, the half it hands out, back on the
\* free list instead of buddy2
buddyAllocatePushesBuddy1(a, size) ==
    IF size \in DOMAIN a.lists /\ a.lists[size] # <<>>
    THEN LET startIdx == Head(a.lists[size])
         IN  [a |-> [a EXCEPT !.lists = SetList(a.lists, size, Tail(a.lists[size])),
                              !.fl = MarkBlocks(a.fl, startIdx, size, FALSE)],
              h |-> KVHandle(startIdx, size)]
    ELSE LET nextSize == size * 2
         IN  IF nextSize > a.total
             THEN [a |-> a, h |-> InvalidHandle]
             ELSE IF nextSize \in DOMAIN a.lists /\ a.lists[nextSize] # <<>>
                  THEN LET buddy1 == Head(a.lists[nextSize])
                           popped == SetList(a.lists, nextSize, Tail(a.lists[nextSize]))
                           pushed == SetList(popped, nextSize \div 2,
                                             Append(ListAt(popped, nextSize \div 2), buddy1))
                       IN  [a |-> [a EXCEPT !.lists = pushed,
                                            !.fl = MarkBlocks(a.fl, buddy1,
                                                              nextSize \div 2, FALSE)],
                            h |-> KVHandle(buddy1, nextSize \div 2)]
                  ELSE buddyAllocate(a, nextSize)

\* KVBlockAllocator::buddyAllocate(size):
\* returns [a |-> allocator state after the call, h |-> the handle returned]
buddyAllocate(a, size) ==
    IF size \in DOMAIN a.lists /\ a.lists[size] # <<>>
    THEN LET startIdx == Head(a.lists[size])
         IN  [a |-> [a EXCEPT !.lists = SetList(a.lists, size, Tail(a.lists[size])),
                              !.fl = MarkBlocks(a.fl, startIdx, size, FALSE)],
              h |-> KVHandle(startIdx, size)]
    ELSE LET nextSize == size * 2
         IN  IF nextSize > a.total
             THEN [a |-> a, h |-> InvalidHandle]
             ELSE IF nextSize \in DOMAIN a.lists /\ a.lists[nextSize] # <<>>
                  THEN LET largeBlock == Head(a.lists[nextSize])
                           buddy1 == largeBlock
                           buddy2 == largeBlock + nextSize \div 2
                           popped == SetList(a.lists, nextSize, Tail(a.lists[nextSize]))
                           pushed == SetList(popped, nextSize \div 2,
                                             Append(ListAt(popped, nextSize \div 2), buddy2))
                       IN  [a |-> [a EXCEPT !.lists = pushed,
                                            !.fl = MarkBlocks(a.fl, buddy1,
                                                                nextSize \div 2, FALSE)],
                            h |-> KVHandle(buddy1, nextSize \div 2)]
                  ELSE buddyAllocate(a, nextSize)

RECURSIVE AllocSize(_, _)
\* allocSize = 1; while (allocSize < blocksNeeded) allocSize *= 2
AllocSize(allocSize, blocksNeeded) ==
    IF allocSize < blocksNeeded THEN AllocSize(allocSize * 2, blocksNeeded) ELSE allocSize

\* KVBlockAllocator::allocate(blocksNeeded)
allocate(a, blocksNeeded) ==
    IF blocksNeeded <= 0
    THEN [a |-> a, h |-> InvalidHandle]
    ELSE LET allocSize == AllocSize(1, blocksNeeded)
         IN  IF allocSize > a.total
             THEN [a |-> a, h |-> InvalidHandle]
             ELSE buddyAllocate(a, allocSize)

\* std::sort(freeList.begin(), freeList.end()) on a deque of ints
SortInts(s) == SortSeq(s, LAMBDA x, y : x < y)

\* positions i with s[i+1] = s[i] + size: the adjacent pairs of the sorted list
AdjacentPairs(s, size) == {i \in 1 .. (Len(s) - 1) : s[i + 1] = s[i] + size}

Min(S) == CHOOSE x \in S : \A y \in S : x <= y

\* the sequence s without its elements at positions i and i+1
ErasePair(s, i) == SubSeq(s, 1, i - 1) \o SubSeq(s, i + 2, Len(s))

\* free() leaving the freed block on its list without merging it with its neighbour
buddyCoalesceNoMerge(lists, size) == lists

RECURSIVE buddyCoalesce(_, _)
\* returns the buddy free lists after coalescing size class `size`
buddyCoalesce(lists, size) ==
    IF size \notin DOMAIN lists THEN lists
    ELSE IF Len(lists[size]) < 2 THEN lists
    ELSE LET sorted == SortInts(lists[size])
             pairs == AdjacentPairs(sorted, size)
         IN  IF pairs = {}
             THEN SetList(lists, size, sorted)
             ELSE LET i == Min(pairs)
                      block1 == sorted[i]
                      nextSize == size * 2
                      erased == SetList(lists, size, ErasePair(sorted, i))
                      merged == SetList(erased, nextSize,
                                        Append(ListAt(erased, nextSize), block1))
                  IN  buddyCoalesce(merged, nextSize)

\* KVBlockAllocator::free(handle): returns the allocator state after the call
free(a, handle) ==
    IF ~isValid(handle) THEN a
    ELSE LET marked == MarkBlocks(a.fl, handle.startBlockIndex, handle.numBlocks, TRUE)
             pushed == SetList(a.lists, handle.numBlocks,
                               Append(ListAt(a.lists, handle.numBlocks),
                                      handle.startBlockIndex))
         IN  [a EXCEPT !.fl = marked, !.lists = buddyCoalesce(pushed, handle.numBlocks)]

\* KVBlockAllocator::freeBlocks / usedBlocks, on a free map
freeBlocks(fl) == Cardinality({i \in DOMAIN fl : fl[i]})
usedBlocks(fl) == Cardinality({i \in DOMAIN fl : ~fl[i]})

\* the allocator of the current state
Allocator == [total |-> totalBlocks_, fl |-> freeList_, lists |-> buddyFreeLists_]

SetAllocator(a) ==
    /\ totalBlocks_' = a.total
    /\ freeList_' = a.fl
    /\ buddyFreeLists_' = a.lists

(***************************************************************************)
(* The allocator driven directly by a client that keeps the handles it was *)
(* given (SpecAlloc).                                                      *)
(***************************************************************************)
NoCall == [op |-> "none", arg |-> 0, ret |-> InvalidHandle]

\* the pool sizes the runs construct the allocator with: powers of two and others
PoolSizes == {n \in 1 .. MaxTotalBlocks : n + 1 >= MaxTotalBlocks}

KVPoolSizes == {n \in 1 .. MaxKVBlocks : n + 1 >= MaxKVBlocks}

\* the pool sizes of the engine runs: also a pool of one block, which runs out
EnginePoolSizes == {1} \cup KVPoolSizes

AllocInit(sizes) ==
    /\ totalBlocks_ \in sizes
    /\ freeList_ = NewAllocator(totalBlocks_).fl
    /\ buddyFreeLists_ = NewAllocator(totalBlocks_).lists

KVIdle ==
    /\ blockSize_ = 1
    /\ sequences_ = <<>>

\* the request handles a client holds
Requests == 1 .. NumRequests

EmptyBatch(isPrefill) ==
    [requests |-> <<>>, sequenceLengths |-> <<>>, batchSize |-> 0, isPrefill |-> isPrefill]

\* no request is in use and no scheduler call is made
SchedIdle ==
    /\ id_ = [r \in Requests |-> r]
    /\ promptLen = [r \in Requests |-> 1]
    /\ maxTokens_ = [r \in Requests |-> 1]
    /\ state = [r \in Requests |-> "Pending"]
    /\ generatedTokens_ = [r \in Requests |-> <<>>]
    /\ maxBatchSize = 1
    /\ pendingQueue = <<>>
    /\ activeRequests = <<>>
    /\ finishedRequests = <<>>
    /\ batch = EmptyBatch(TRUE)
    /\ submitLog = <<>>
    /\ admitLog = <<>>
    /\ thrownBatch = [prefill |-> {}, decode |-> {}]

\* a request as constructed: no stop tokens, not cancelled, no callback call made
\* a float: a number of tenths, or a NaN
Float(tenths) == [nan |-> FALSE, tenths |-> tenths]

NaN == [nan |-> TRUE, tenths |-> 0]

\* x < y and x > y on floats: false when either side is a NaN
FloatLess(x, y) == ~x.nan /\ ~y.nan /\ x.tenths < y.tenths

FloatGreater(x, y) == FloatLess(y, x)

\* x <= y on floats
FloatLessEq(x, y) == ~x.nan /\ ~y.nan /\ x.tenths <= y.tenths

\* struct SamplingParams (request.h); the seed plays no part in the checks
SamplingParams(temperature, topK, topP, greedy, repetitionPenalty) ==
    [temperature |-> temperature, topK |-> topK, topP |-> topP, greedy |-> greedy,
     repetitionPenalty |-> repetitionPenalty]

\* the member initialisers of SamplingParams: 1.0f, 40, 0.9f, false, 1.0f
DefaultSamplingParams == SamplingParams(Float(10), 40, Float(9), FALSE, Float(10))

\* SamplingParams::isValid()
isValidParams(params) ==
    IF FloatLess(params.temperature, Float(0)) \/ FloatGreater(params.temperature, Float(20))
    THEN FALSE
    ELSE IF params.topK < 1 \/ params.topK > 100
    THEN FALSE
    ELSE IF FloatLessEq(params.topP, Float(0)) \/ FloatGreater(params.topP, Float(10))
    THEN FALSE
    ELSE IF FloatLess(params.repetitionPenalty, Float(0))
            \/ FloatGreater(params.repetitionPenalty, Float(20))
    THEN FALSE
    ELSE TRUE

\* setSamplingParams storing the argument before it validates it
setSamplingParamsStoresFirst(current, params) ==
    IF ~isValidParams(params)
    THEN [params |-> params, thrown |-> "invalid_argument"]
    ELSE [params |-> params, thrown |-> "none"]

\* Request::setSamplingParams(params) on samplingParams_ = current: the new
\* samplingParams_ and the exception thrown
setSamplingParams(current, params) ==
    IF ~isValidParams(params)
    THEN [params |-> current, thrown |-> "invalid_argument"]
    ELSE [params |-> params, thrown |-> "none"]

RequestIdle ==
    /\ stopTokens_ = [r \in Requests |-> {}]
    /\ cancelled_ = [r \in Requests |-> FALSE]
    /\ samplingParams_ = [r \in Requests |-> DefaultSamplingParams]
    /\ notified = [r \in Requests |-> <<>>]

\* EngineStats{} and the engine before run() is called
EngineIdle ==
    /\ running = FALSE
    /\ paused = FALSE
    /\ stats = [tokensProcessed |-> 0, requestsCompleted |-> 0, requestsFailed |-> 0]
    /\ pc = "idle"
    /\ pcOther = "idle"

InitAlloc ==
    /\ AllocInit(PoolSizes)
    /\ KVIdle
    /\ SchedIdle
    /\ EngineIdle
    /\ RequestIdle
    /\ handles = {}
    /\ lastCall = NoCall

\* the length of the longest run of free blocks in the free map
largestContiguous(fl) ==
    LET runs == {<<i, j>> \in (DOMAIN fl) \X (DOMAIN fl) :
                    i <= j /\ \A x \in i .. j : fl[x]}
    IN  IF runs = {} THEN 0
        ELSE CHOOSE n \in 1 .. Cardinality(DOMAIN fl) :
                /\ \E run \in runs : run[2] - run[1] + 1 = n
                /\ \A run \in runs : run[2] - run[1] + 1 <= n

\* what a call of KVBlockAllocator::fragmentation() can do. It takes lock_ and then
\* calls freeBlocks(), which takes the same std::mutex again on the same thread:
\* that is undefined, and the call blocks for ever, throws std::system_error, or
\* goes on to return 1 - largest / free (0 when nothing is free)
FragmentationOutcomes(a) ==
    IF a.total = 0
    THEN {[outcome |-> "returns", largest |-> 0, free |-> 0]}
    ELSE {[outcome |-> o, largest |-> largestContiguous(a.fl), free |-> freeBlocks(a.fl)] :
             o \in {"returns", "blocks", "throws"}}

\* a thread is blocked inside fragmentation() and holds lock_
AllocatorLocked == lastCall.op = "fragmentation" /\ lastCall.ret.outcome = "blocks"

\* a client calls allocator.allocate(n) and keeps the handle when it is valid
AllocatorAllocate(n) ==
    LET r == allocate(Allocator, n)
    IN  /\ ~AllocatorLocked
        /\ SetAllocator(r.a)
        /\ handles' = IF isValid(r.h) THEN handles \cup {r.h} ELSE handles
        /\ lastCall' = [op |-> "allocate", arg |-> n, ret |-> r.h]
        /\ UNCHANGED <<kvVars, reqVars, schedVars, engineVars, logVars>>

\* a client calls allocator.free(h) on one of its live handles
AllocatorFree(h) ==
    /\ ~AllocatorLocked
    /\ h \in handles
    /\ SetAllocator(free(Allocator, h))
    /\ handles' = handles \ {h}
    /\ lastCall' = [op |-> "free", arg |-> h.numBlocks, ret |-> h]
    /\ UNCHANGED <<kvVars, reqVars, schedVars, engineVars, logVars>>

\* a client calls allocator.fragmentation()
AllocatorFragmentation ==
    /\ ~AllocatorLocked
    /\ \E res \in FragmentationOutcomes(Allocator) :
          lastCall' = [op |-> "fragmentation", arg |-> 0, ret |-> res]
    /\ UNCHANGED <<allocVars, handles, kvVars, reqVars, schedVars, engineVars, logVars>>

NextAlloc ==
    \/ \E n \in -1 .. (MaxTotalBlocks + 1) : AllocatorAllocate(n)
    \/ \E h \in handles : AllocatorFree(h)
    \/ AllocatorFragmentation

SpecAlloc == InitAlloc /\ [][NextAlloc]_vars

(***************************************************************************)
(* KVCache: the entry map sequences_ over the allocator (SpecKV).          *)
(***************************************************************************)
\* the request ids the KV cache is called with
KVIds == 1 .. NumKVIds

\* SequenceKVEntry (kv_cache.h)
SequenceKVEntry(handle, tokensUsed, maxAllowed) ==
    [handle |-> handle, tokensUsed |-> tokensUsed, maxAllowed |-> maxAllowed]

\* sequences_[id] = e
PutEntry(seqs, id, e) == [x \in DOMAIN seqs \cup {id} |-> IF x = id THEN e ELSE seqs[x]]

\* sequences_.erase(id)
EraseEntry(seqs, id) == [x \in DOMAIN seqs \ {id} |-> seqs[x]]

\* int blocksNeeded = (initialTokens + blockSize_ - 1) / blockSize_
BlocksNeeded(initialTokens, blockSize) == (initialTokens + blockSize - 1) \div blockSize

\* KVCache::allocateFor(requestId, initialTokens) on the cache state
\* [a |-> allocator, seqs |-> sequences_]; returns the new state and the bool
allocateFor(a, seqs, blockSize, requestId, initialTokens) ==
    IF requestId \in DOMAIN seqs
    THEN [a |-> a, seqs |-> seqs, ok |-> FALSE]
    ELSE LET blocksNeeded == BlocksNeeded(initialTokens, blockSize)
             maxAllowed == blocksNeeded * blockSize
             r == allocate(a, blocksNeeded)
         IN  IF ~isValid(r.h)
             THEN [a |-> r.a, seqs |-> seqs, ok |-> FALSE]
             ELSE [a |-> r.a,
                   seqs |-> PutEntry(seqs, requestId,
                                     SequenceKVEntry(r.h, initialTokens, maxAllowed)),
                   ok |-> TRUE]

\* KVCache::freeFor(requestId)
freeFor(a, seqs, requestId) ==
    IF requestId \in DOMAIN seqs
    THEN [a |-> free(a, seqs[requestId].handle), seqs |-> EraseEntry(seqs, requestId)]
    ELSE [a |-> a, seqs |-> seqs]

\* appendToken reaching the entry with sequences_[requestId], which creates the
\* entry of an unknown id
appendTokenInsertsEntry(seqs, requestId) ==
    LET seqs1 == IF requestId \in DOMAIN seqs THEN seqs
                 ELSE PutEntry(seqs, requestId, SequenceKVEntry(InvalidHandle, 0, 0))
    IN  IF seqs1[requestId].tokensUsed >= seqs1[requestId].maxAllowed
        THEN [seqs |-> seqs1, ok |-> FALSE]
        ELSE [seqs |-> [seqs1 EXCEPT ![requestId].tokensUsed = @ + 1], ok |-> TRUE]

\* appendToken comparing with > where the code compares with >=: one token too many
appendTokenOneTooMany(seqs, requestId) ==
    IF requestId \notin DOMAIN seqs
    THEN [seqs |-> seqs, ok |-> FALSE]
    ELSE IF seqs[requestId].tokensUsed > seqs[requestId].maxAllowed
         THEN [seqs |-> seqs, ok |-> FALSE]
         ELSE [seqs |-> [seqs EXCEPT ![requestId].tokensUsed = @ + 1], ok |-> TRUE]

\* KVCache::appendToken(requestId)
appendToken(seqs, requestId) ==
    IF requestId \notin DOMAIN seqs
    THEN [seqs |-> seqs, ok |-> FALSE]
    ELSE IF seqs[requestId].tokensUsed >= seqs[requestId].maxAllowed
         THEN [seqs |-> seqs, ok |-> FALSE]
         ELSE [seqs |-> [seqs EXCEPT ![requestId].tokensUsed = @ + 1], ok |-> TRUE]

\* KVCache::getKView / getVView(requestId, layer): the view's valid flag and the
\* token dimension of its shape; {nullptr, {}, false} for an unknown id
getKView(seqs, requestId) ==
    IF requestId \notin DOMAIN seqs
    THEN [valid |-> FALSE, tokens |-> 0]
    ELSE [valid |-> TRUE, tokens |-> seqs[requestId].tokensUsed]

getVView(seqs, requestId) ==
    IF requestId \notin DOMAIN seqs
    THEN [valid |-> FALSE, tokens |-> 0]
    ELSE [valid |-> TRUE, tokens |-> seqs[requestId].tokensUsed]

\* KVCache::usedTokens(requestId)
usedTokens(seqs, requestId) ==
    IF requestId \in DOMAIN seqs THEN seqs[requestId].tokensUsed ELSE 0

InitKV ==
    /\ AllocInit(KVPoolSizes)
    /\ SchedIdle
    /\ EngineIdle
    /\ RequestIdle
    /\ blockSize_ = BlockSize
    /\ sequences_ = <<>>
    /\ handles = {}
    /\ lastCall = NoCall

KVAllocateFor(id, k) ==
    LET r == allocateFor(Allocator, sequences_, blockSize_, id, k)
    IN  /\ SetAllocator(r.a)
        /\ sequences_' = r.seqs
        /\ UNCHANGED <<blockSize_, handles, lastCall, reqVars, schedVars, engineVars, logVars>>

KVFreeFor(id) ==
    LET r == freeFor(Allocator, sequences_, id)
    IN  /\ SetAllocator(r.a)
        /\ sequences_' = r.seqs
        /\ UNCHANGED <<blockSize_, handles, lastCall, reqVars, schedVars, engineVars, logVars>>

KVAppendToken(id) ==
    LET r == appendToken(sequences_, id)
    IN  /\ sequences_' = r.seqs
        /\ UNCHANGED <<allocVars, blockSize_, handles, lastCall, reqVars, schedVars, engineVars, logVars>>

NextKV ==
    \/ \E id \in KVIds, k \in 0 .. MaxKVTokens : KVAllocateFor(id, k)
    \/ \E id \in KVIds : KVFreeFor(id)
    \/ \E id \in KVIds : KVAppendToken(id)

SpecKV == InitKV /\ [][NextKV]_vars

(***************************************************************************)
(* Request: the accessors the scheduler and the engine call.               *)
(***************************************************************************)
RequestStates == {"Pending", "Prefilling", "Decoding", "Finished", "Failed"}

getId(r) == id_[r]
\* Request::Request stamps arrivalTimestampNs_ with the clock: request handles are
\* numbered in the order the client constructed them
getArrivalTimestampNs(r) == r
getPromptLength(r) == promptLen[r]
getMaxTokens(r) == maxTokens_[r]
\* getState / getGeneratedLength on given request states / token vectors
getState(st, r) == st[r]
getGeneratedLength(gen, r) == Len(gen[r])
\* req->setState(s)
setState(st, r, s) == [st EXCEPT ![r] = s]
\* Request::addGeneratedToken(token): generatedTokens_.push_back(token)
addGeneratedToken(gen, r, token) == [gen EXCEPT ![r] = Append(@, token)]
\* Request::notifyToken(token, finished): tokenCallback_(token, finished).
\* Neither the engine nor the scheduler calls it.
notifyToken(n, r, token, finished) == [n EXCEPT ![r] = Append(@, <<token, finished>>)]

(***************************************************************************)
(* Scheduler.  Its operations work on (pendingQueue, activeRequests,       *)
(* finishedRequests) and on the states of the requests they point to.      *)
(***************************************************************************)
RECURSIVE acceptLoop(_, _, _, _, _)

\* the admission loop comparing with <= : it admits one request too many
acceptLoopOneTooMany(pending, active, st, admitted, max) ==
    IF pending # <<>> /\ Len(active) <= max
    THEN LET req == Head(pending)
         IN  acceptLoop(Tail(pending), Append(active, req),
                        setState(st, req, "Prefilling"), Append(admitted, req), max)
    ELSE [pending |-> pending, active |-> active, st |-> st, admitted |-> admitted]

\* while (!pendingQueue.empty() && activeRequests.size() < maxBatchSize) { ... }
acceptLoop(pending, active, st, admitted, max) ==
    IF pending # <<>> /\ Len(active) < max
    THEN LET req == Head(pending)
         IN  acceptLoop(Tail(pending), Append(active, req),
                        setState(st, req, "Prefilling"), Append(admitted, req), max)
    ELSE [pending |-> pending, active |-> active, st |-> st, admitted |-> admitted]

\* acceptNewRequests popping the newest pending request instead of the oldest
acceptNewRequestsNewestFirst(pending, active, st, max) ==
    IF pending # <<>> /\ Len(active) < max
    THEN LET req == pending[Len(pending)]
             rest == acceptLoop(SubSeq(pending, 1, Len(pending) - 1), Append(active, req),
                                setState(st, req, "Prefilling"), <<req>>, max)
         IN  rest
    ELSE acceptLoop(pending, active, st, <<>>, max)

\* Scheduler::acceptNewRequests()
acceptNewRequests(pending, active, st, max) == acceptLoop(pending, active, st, <<>>, max)

\* the requests of `active` that are in state s, in the order of `active`
CollectInState(active, st, s) == SelectSeq(active, LAMBDA r : getState(st, r) = s)

\* the sequence s rearranged by the index permutation pi
Rearranged(s, pi) == [i \in 1 .. Len(s) |-> s[pi[i]]]

\* std::sort(s.begin(), s.end(), [](a, b) { return key[a] < key[b]; }): the sort is
\* not stable, so every arrangement of s that is ascending in key is a result
SortResults(s, key) ==
    IF s = <<>> THEN {<<>>}
    ELSE {t \in {Rearranged(s, pi) : pi \in Permutations(1 .. Len(s))} :
             \A i \in 1 .. (Len(t) - 1) : ~(key[t[i + 1]] < key[t[i]])}

\* for (req : sorted) { push_back; batchSize++; if (batchSize >= maxBatchSize) break; }
TakeUpTo(sorted, max) ==
    IF sorted = <<>> THEN <<>>
    ELSE IF max >= 1 /\ max < Len(sorted) THEN SubSeq(sorted, 1, max)
    ELSE IF max < 1 THEN SubSeq(sorted, 1, 1)
    ELSE sorted

\* Scheduler::buildPrefillBatch(): the batches the call can return
buildPrefillBatch(active, st, max) ==
    {LET reqs == TakeUpTo(sorted, max)
     IN  [requests |-> reqs,
          sequenceLengths |-> [i \in 1 .. Len(reqs) |-> getPromptLength(reqs[i])],
          batchSize |-> Len(reqs),
          isPrefill |-> TRUE] :
       sorted \in SortResults(CollectInState(active, st, "Prefilling"),
                              [r \in Requests |-> getPromptLength(r)])}

\* Scheduler::buildDecodeBatch(): the batches the call can return
buildDecodeBatch(active, st, gen, max) ==
    {LET reqs == TakeUpTo(sorted, max)
     IN  [requests |-> reqs,
          sequenceLengths |-> [i \in 1 .. Len(reqs) |-> getGeneratedLength(gen, reqs[i]) + 1],
          batchSize |-> Len(reqs),
          isPrefill |-> FALSE] :
       sorted \in SortResults(CollectInState(active, st, "Decoding"),
                              [r \in Requests |-> getGeneratedLength(gen, r)])}

\* position of the first request of `active` whose id is requestId, 0 if none
\* (the for loop of markRequestReady, std::find_if of markRequestFinished/Failed)
FindById(active, requestId) ==
    LET hits == {i \in 1 .. Len(active) : getId(active[i]) = requestId}
    IN  IF hits = {} THEN 0 ELSE Min(hits)

\* activeRequests.erase(it)
EraseAt(s, i) == SubSeq(s, 1, i - 1) \o SubSeq(s, i + 1, Len(s))

\* Scheduler::markRequestReady(requestId): the request states after the call
markRequestReady(active, st, requestId) ==
    LET i == FindById(active, requestId)
    IN  IF i # 0 /\ getState(st, active[i]) = "Prefilling"
        THEN setState(st, active[i], "Decoding")
        ELSE st

\* Scheduler::markRequestFinished(requestId)
markRequestFinished(active, finished, st, requestId) ==
    LET i == FindById(active, requestId)
    IN  IF i # 0
        THEN [active |-> EraseAt(active, i),
              finished |-> Append(finished, active[i]),
              st |-> setState(st, active[i], "Finished")]
        ELSE [active |-> active, finished |-> finished, st |-> st]

\* Scheduler::markRequestFailed(requestId)
markRequestFailed(active, st, requestId) ==
    LET i == FindById(active, requestId)
    IN  IF i # 0
        THEN [active |-> EraseAt(active, i), st |-> setState(st, active[i], "Failed")]
        ELSE [active |-> active, st |-> st]

\* Scheduler::hasWork()
hasWork == pendingQueue # <<>> \/ activeRequests # <<>>

(***************************************************************************)
(* The scheduler called directly: clients submit, and the owner of the     *)
(* scheduler makes its calls in any order (SpecSched, SpecSchedOnce).       *)
(***************************************************************************)
\* the ids of the requests
RequestIds == {id_[r] : r \in Requests}

\* the elements of a sequence
Elems(s) == {s[i] : i \in 1 .. Len(s)}

PromptLens == 0 .. MaxPromptLen

InitSched ==
    /\ AllocInit({MaxKVBlocks})
    /\ KVIdle
    /\ EngineIdle
    /\ RequestIdle
    /\ handles = {}
    /\ lastCall = NoCall
    /\ id_ = [r \in Requests |-> r]
    /\ promptLen \in [Requests -> PromptLens]
    /\ maxTokens_ = [r \in Requests |-> 1]
    /\ state = [r \in Requests |-> "Pending"]
    /\ generatedTokens_ = [r \in Requests |-> <<>>]
    /\ maxBatchSize \in 1 .. MaxBatch
    /\ pendingQueue = <<>>
    /\ activeRequests = <<>>
    /\ finishedRequests = <<>>
    /\ batch = EmptyBatch(TRUE)
    /\ submitLog = <<>>
    /\ admitLog = <<>>
    /\ thrownBatch = [prefill |-> {}, decode |-> {}]

nonSchedVars == <<allocVars, kvVars, handles, lastCall, engineVars>>

\* Scheduler::submitRequest(request), request not null
Submit(r) ==
    /\ pendingQueue' = Append(pendingQueue, r)
    /\ submitLog' = Append(submitLog, r)
    /\ UNCHANGED <<nonSchedVars, reqVars, maxBatchSize, activeRequests, finishedRequests,
                   batch, admitLog, thrownBatch>>

AcceptNewRequests ==
    LET res == acceptNewRequests(pendingQueue, activeRequests, state, maxBatchSize)
    IN  /\ pendingQueue' = res.pending
        /\ activeRequests' = res.active
        /\ state' = res.st
        /\ admitLog' = admitLog \o res.admitted
        /\ UNCHANGED <<nonSchedVars, reqFixed, generatedTokens_,
                       maxBatchSize, finishedRequests, batch, submitLog, thrownBatch>>

BuildPrefillBatch ==
    /\ batch' \in buildPrefillBatch(activeRequests, state, maxBatchSize)
    /\ UNCHANGED <<nonSchedVars, reqVars, maxBatchSize, pendingQueue, activeRequests,
                   finishedRequests, logVars>>

BuildDecodeBatch ==
    /\ batch' \in buildDecodeBatch(activeRequests, state, generatedTokens_, maxBatchSize)
    /\ UNCHANGED <<nonSchedVars, reqVars, maxBatchSize, pendingQueue, activeRequests,
                   finishedRequests, logVars>>

MarkRequestReady(requestId) ==
    /\ state' = markRequestReady(activeRequests, state, requestId)
    /\ UNCHANGED <<nonSchedVars, reqFixed, generatedTokens_,
                   schedVars, logVars>>

MarkRequestFinished(requestId) ==
    LET res == markRequestFinished(activeRequests, finishedRequests, state, requestId)
    IN  /\ activeRequests' = res.active
        /\ finishedRequests' = res.finished
        /\ state' = res.st
        /\ UNCHANGED <<nonSchedVars, reqFixed, generatedTokens_,
                       maxBatchSize, pendingQueue, batch, logVars>>

MarkRequestFailed(requestId) ==
    LET res == markRequestFailed(activeRequests, state, requestId)
    IN  /\ activeRequests' = res.active
        /\ state' = res.st
        /\ UNCHANGED <<nonSchedVars, reqFixed, generatedTokens_,
                       maxBatchSize, pendingQueue, finishedRequests, batch, logVars>>

\* the calls of the scheduler's owner
SchedulerCalls ==
    \/ AcceptNewRequests
    \/ BuildPrefillBatch
    \/ BuildDecodeBatch
    \/ \E requestId \in RequestIds : MarkRequestReady(requestId)
    \/ \E requestId \in RequestIds : MarkRequestFinished(requestId)
    \/ \E requestId \in RequestIds : MarkRequestFailed(requestId)

\* a client thread calls submitRequest with a handle it holds; nothing stops it from
\* passing a handle it has passed before
SubmitRequest == \E r \in Requests : Len(submitLog) < MaxSubmits /\ Submit(r)

\* a client that passes every handle at most once
SubmitOnce == \E r \in Requests : r \notin Elems(submitLog) /\ Submit(r)

NextSched == SubmitRequest \/ SchedulerCalls

SpecSched == InitSched /\ [][NextSched]_vars

NextSchedOnce == SubmitOnce \/ SchedulerCalls

SpecSchedOnce == InitSched /\ [][NextSchedOnce]_vars

(***************************************************************************)
(* InferenceEngine: run() / mainLoop() as the steps of the engine thread,  *)
(* with clients submitting from other threads (SpecEngine).                *)
(***************************************************************************)
\* the token ids sampleToken can return
Tokens == 0 .. (VocabSize - 1)

\* cache->allocateBlock(req->getId()) of processPrefill: the request's blocks are
\* allocated with kv.allocateFor(id, promptLen); a failure is blockId < 0
allocateBlock(a, seqs, blockSize, r) ==
    allocateFor(a, seqs, blockSize, getId(r), getPromptLength(r))

RECURSIVE prefillAllocate(_, _, _, _)
\* the allocation loop of processPrefill over the rows in the order the OpenMP
\* threads take them; a failed allocation calls handleOOM(), which changes nothing
prefillAllocate(a, seqs, blockSize, rows) ==
    IF rows = <<>> THEN [a |-> a, seqs |-> seqs]
    ELSE LET res == allocateBlock(a, seqs, blockSize, Head(rows))
         IN  prefillAllocate(res.a, res.seqs, blockSize, Tail(rows))

RECURSIVE prefillMarkReady(_, _, _)
\* for (i < batchSize) scheduler->markRequestReady(requests[i]->getId())
prefillMarkReady(active, st, rows) ==
    IF rows = <<>> THEN st
    ELSE prefillMarkReady(active, markRequestReady(active, st, getId(Head(rows))), Tail(rows))

\* one row of emitTokens: the critical section that appends the token, counts it
\* and finishes the request when it has reached maxTokens.
\* e = [active, finished, st, gen, stats]
emitRow(e, r, token) ==
    LET gen1 == addGeneratedToken(e.gen, r, token)
        stats1 == [e.stats EXCEPT !.tokensProcessed = @ + 1]
    IN  IF getGeneratedLength(gen1, r) >= getMaxTokens(r)
        THEN LET fin == markRequestFinished(e.active, e.finished, e.st, getId(r))
             IN  [active |-> fin.active, finished |-> fin.finished, st |-> fin.st,
                  gen |-> gen1,
                  stats |-> [stats1 EXCEPT !.requestsCompleted = @ + 1]]
        ELSE [e EXCEPT !.gen = gen1, !.stats = stats1]

RECURSIVE emitTokens(_, _, _)
\* InferenceEngine::emitTokens over the rows in the order the OpenMP threads enter
\* the critical section, tokens[i] being the token sampled for rows[i]
emitTokens(e, rows, tokens) ==
    IF rows = <<>> THEN e
    ELSE emitTokens(emitRow(e, Head(rows), Head(tokens)), Tail(rows), Tail(tokens))

\* the orders in which the rows of a batch can be processed by a parallel loop
RowOrders(b) == {Rearranged(b.requests, pi) : pi \in Permutations(1 .. Len(b.requests))}

\* the engine, its scheduler and its KV cache as constructed, and the requests the
\* clients have created
EngineStart ==
    /\ AllocInit(EnginePoolSizes)
    /\ blockSize_ = BlockSize
    /\ sequences_ = <<>>
    /\ handles = {}
    /\ lastCall = NoCall
    /\ id_ = [r \in Requests |-> r]
    /\ promptLen \in [Requests -> PromptLens]
    /\ maxTokens_ \in [Requests -> 1 .. MaxMaxTokens]
    /\ state = [r \in Requests |-> "Pending"]
    /\ generatedTokens_ = [r \in Requests |-> <<>>]
    /\ maxBatchSize \in 1 .. MaxBatch
    /\ pendingQueue = <<>>
    /\ activeRequests = <<>>
    /\ finishedRequests = <<>>
    /\ batch = EmptyBatch(TRUE)
    /\ EngineIdle
    /\ submitLog = <<>>
    /\ admitLog = <<>>
    /\ thrownBatch = [prefill |-> {}, decode |-> {}]

InitEngine == EngineStart /\ RequestIdle

\* the stop-token sets the clients give their requests
StopSets == {{}, {0}}

\* as InitEngine, with requests that may carry a stop token
InitEngineClients ==
    /\ EngineStart
    /\ stopTokens_ \in [Requests -> StopSets]
    /\ cancelled_ = [r \in Requests |-> FALSE]
    /\ samplingParams_ = [r \in Requests |-> DefaultSamplingParams]
    /\ notified = [r \in Requests |-> <<>>]

\* InferenceEngine::run(): not running, so mainLoop() starts and sets running
Run ==
    /\ pc = "idle"
    /\ ~running
    /\ running' = TRUE
    /\ pc' = "loop"
    /\ UNCHANGED <<allocVars, kvVars, handles, lastCall, reqVars, schedVars, paused, pcOther, stats,
                   logVars>>

\* while (scheduler->hasWork() && !paused): hasWork() reads the queues under
\* queueMutex and releases it before the loop body or the exit runs
LoopCheck ==
    /\ pc = "loop"
    /\ IF hasWork /\ ~paused
       THEN pc' = "accept"
       ELSE pc' = "exit"
    /\ UNCHANGED <<allocVars, kvVars, handles, lastCall, reqVars, schedVars, running, paused, pcOther,
                   stats, logVars>>

\* running = false; mainLoop() and run() return
LoopExit ==
    /\ pc = "exit"
    /\ running' = FALSE
    /\ pc' = "idle"
    /\ UNCHANGED <<allocVars, kvVars, handles, lastCall, reqVars, schedVars, paused, pcOther, stats,
                   logVars>>

\* scheduler->acceptNewRequests()
TickAccept ==
    /\ pc = "accept"
    /\ LET res == acceptNewRequests(pendingQueue, activeRequests, state, maxBatchSize)
       IN  /\ pendingQueue' = res.pending
           /\ activeRequests' = res.active
           /\ state' = res.st
           /\ admitLog' = admitLog \o res.admitted
    /\ pc' = "prefill"
    /\ UNCHANGED <<allocVars, kvVars, handles, lastCall, reqFixed,
                   generatedTokens_, maxBatchSize, finishedRequests, batch, running, paused, pcOther,
                   stats, submitLog, thrownBatch>>

\* prefillBatch = buildPrefillBatch(); if (!empty) processPrefill(prefillBatch),
\* the backend returning logits
TickPrefill ==
    /\ pc = "prefill"
    /\ \E b \in buildPrefillBatch(activeRequests, state, maxBatchSize) :
          /\ batch' = b
          /\ IF b.requests = <<>>
             THEN UNCHANGED <<allocVars, sequences_, state>>
             ELSE \E rows \in RowOrders(b) :
                     LET res == prefillAllocate(Allocator, sequences_, blockSize_, rows)
                     IN  /\ SetAllocator(res.a)
                         /\ sequences_' = res.seqs
                         /\ state' = prefillMarkReady(activeRequests, state, b.requests)
    /\ thrownBatch' = [thrownBatch EXCEPT !.prefill = {}]
    /\ pc' = "decode"
    /\ UNCHANGED <<blockSize_, handles, lastCall, reqFixed,
                   generatedTokens_, maxBatchSize, pendingQueue, activeRequests,
                   finishedRequests, running, paused, pcOther, stats, submitLog, admitLog>>

\* InferenceEngine::sampleAndApply: the token backend->sampleToken returned, or the
\* fallback token 0 when it threw
sampleAndApply(sampled, throws) == IF throws THEN 0 ELSE sampled

\* handleBackendFailure(reason)
handleBackendFailure(st) == [st EXCEPT !.requestsFailed = @ + 1]

\* processPrefill with backend->prefill throwing: mainLoop catches the exception
TickPrefillThrows ==
    /\ pc = "prefill"
    /\ stats.requestsFailed < MaxBackendFailures
    /\ \E b \in buildPrefillBatch(activeRequests, state, maxBatchSize) :
          /\ b.requests # <<>>
          /\ batch' = b
          /\ thrownBatch' = [thrownBatch EXCEPT !.prefill = Elems(b.requests)]
    /\ stats' = handleBackendFailure(stats)
    /\ pc' = "decode"
    /\ UNCHANGED <<allocVars, kvVars, handles, lastCall, reqVars, maxBatchSize, pendingQueue,
                   activeRequests, finishedRequests, running, paused, pcOther, submitLog,
                   admitLog>>

\* decodeBatch = buildDecodeBatch(); if (!empty) processDecode(decodeBatch),
\* the backend returning logits, sampleToken returning a token of `sampled` or
\* throwing for the requests in `thrown`
processDecode(sampled, thrown) ==
    /\ pc = "decode"
    /\ \E b \in buildDecodeBatch(activeRequests, state, generatedTokens_, maxBatchSize) :
          /\ batch' = b
          /\ IF b.requests = <<>>
             THEN thrown = {} /\ UNCHANGED <<activeRequests, finishedRequests, state, generatedTokens_, stats>>
             ELSE \E rows \in RowOrders(b) :
                  thrown \subseteq Elems(rows) /\
                  \E tokens \in [1 .. Len(rows) -> sampled] :
                     LET e == emitTokens([active |-> activeRequests,
                                          finished |-> finishedRequests,
                                          st |-> state,
                                          gen |-> generatedTokens_,
                                          stats |-> stats], rows,
                                         [i \in 1 .. Len(rows) |->
                                            sampleAndApply(tokens[i], rows[i] \in thrown)])
                     IN  /\ activeRequests' = e.active
                         /\ finishedRequests' = e.finished
                         /\ state' = e.st
                         /\ generatedTokens_' = e.gen
                         /\ stats' = e.stats
    /\ thrownBatch' = [thrownBatch EXCEPT !.decode = {}]
    /\ pc' = "end"
    /\ UNCHANGED <<allocVars, kvVars, handles, lastCall, reqFixed,
                   maxBatchSize, pendingQueue, running, paused, pcOther, submitLog, admitLog>>

\* a decode step with any sampling parameters, sampleToken throwing for `thrown`
TickDecodeSampling(thrown) == processDecode(Tokens, thrown)

\* a decode step in which every sampleToken call returns
TickDecode == TickDecodeSampling({})

\* ModelBackend::sampleGreedy on the logits of ModelBackend::forwardImpl, which
\* grow with the token id: the last token id is the first maximum
sampleGreedy == VocabSize - 1

\* a decode step of requests that ask for greedy sampling
TickDecodeGreedy == processDecode({sampleGreedy}, {})

\* a decode step in which sampleToken throws for at least one row
TickDecodeSamplingThrows ==
    \E thrown \in (SUBSET Requests) \ {{}} : TickDecodeSampling(thrown)

\* processDecode with backend->decode throwing: mainLoop catches the exception
TickDecodeThrows ==
    /\ pc = "decode"
    /\ stats.requestsFailed < MaxBackendFailures
    /\ \E b \in buildDecodeBatch(activeRequests, state, generatedTokens_, maxBatchSize) :
          /\ b.requests # <<>>
          /\ batch' = b
          /\ thrownBatch' = [thrownBatch EXCEPT !.decode = Elems(b.requests)]
    /\ stats' = handleBackendFailure(stats)
    /\ pc' = "end"
    /\ UNCHANGED <<allocVars, kvVars, handles, lastCall, reqVars, maxBatchSize, pendingQueue,
                   activeRequests, finishedRequests, running, paused, pcOther, submitLog,
                   admitLog>>

\* cleanup(); validateMemoryState(); the sleep when there is no work.
\* cleanup() reads getNumActiveRequests() and runs an empty loop; nothing is freed
TickEnd ==
    /\ pc = "end"
    /\ pc' = "loop"
    /\ UNCHANGED <<allocVars, kvVars, handles, lastCall, reqVars, schedVars, running, paused, pcOther,
                   stats, logVars>>

EngineSteps ==
    \/ Run
    \/ LoopCheck
    \/ LoopExit
    \/ TickAccept
    \/ TickPrefill
    \/ TickPrefillThrows
    \/ TickDecode
    \/ TickDecodeThrows
    \/ TickEnd

NextEngine == SubmitRequest \/ EngineSteps

SpecEngine == InitEngine /\ [][NextEngine]_vars

NextEngineOnce == SubmitOnce \/ EngineSteps

SpecEngineOnce == InitEngine /\ [][NextEngineOnce]_vars

\* the engine with a backend that never throws, and clients that submit each
\* request once and ask for greedy sampling
NextEngineNominal ==
    \/ SubmitOnce
    \/ Run
    \/ LoopCheck
    \/ LoopExit
    \/ TickAccept
    \/ TickPrefill
    \/ TickDecodeGreedy
    \/ TickEnd

\* the engine constructed over a KV cache of MaxKVBlocks blocks
InitEngineNominal == InitEngine /\ totalBlocks_ = MaxKVBlocks

SpecEngineNominal == InitEngineNominal /\ [][NextEngineNominal]_vars

\* the requests all have the same prompt length: buildPrefillBatch sorts by it with
\* an unstable sort, so equal lengths allow every batch order that other lengths do
InitEngineRun ==
    /\ InitEngineNominal
    /\ \E n \in PromptLens : promptLen = [r \in Requests |-> n]

\* the positions of the engine thread in run() / mainLoop()
PcValues == {"idle", "loop", "exit", "accept", "prefill", "decode", "end"}

\* the thread that called run() moves on to its next position: none of its steps
\* blocks, queueMutex is held by a client only for the push of submitRequest
EngineAdvances == pc # "idle" /\ pc' \in PcValues \ {pc}

\* the nominal engine with the engine thread scheduled as long as it is in run()
SpecEngineRunOnce ==
    InitEngineRun /\ [][NextEngineNominal]_vars /\ WF_pc(EngineAdvances)

\* the same backend and requests, with clients that may pass any handle again
NextEngineRun ==
    \/ SubmitRequest
    \/ Run
    \/ LoopCheck
    \/ LoopExit
    \/ TickAccept
    \/ TickPrefill
    \/ TickDecodeGreedy
    \/ TickEnd

SpecEngineRun ==
    InitEngineRun /\ [][NextEngineRun]_vars /\ WF_pc(EngineAdvances)

\* Request::cancel() called by a client thread
Cancel(r) ==
    /\ ~cancelled_[r]
    /\ cancelled_' = [cancelled_ EXCEPT ![r] = TRUE]
    /\ UNCHANGED <<allocVars, kvVars, handles, lastCall, id_, promptLen, maxTokens_,
                   stopTokens_, samplingParams_, notified, state, generatedTokens_,
                   schedVars, engineVars,
                   logVars>>

\* clients that submit each request once, may cancel it at any time, and may have
\* given it a stop token
NextEngineClients == SubmitOnce \/ (\E r \in Requests : Cancel(r)) \/ EngineSteps

SpecEngineClients == InitEngineClients /\ [][NextEngineClients]_vars

\* the engine with a backend whose sampleToken may throw
NextEngineSampling == NextEngineOnce \/ TickDecodeSamplingThrows

SpecEngineSampling == InitEngine /\ [][NextEngineSampling]_vars

\* InferenceEngine::shutdown() called by a client thread: running = false
Shutdown ==
    /\ running' = FALSE
    /\ UNCHANGED <<allocVars, kvVars, handles, lastCall, reqVars, schedVars, paused, pcOther, stats, pc,
                   logVars>>

\* InferenceEngine::pause() called by a client thread
Pause ==
    /\ paused' = TRUE
    /\ UNCHANGED <<allocVars, kvVars, handles, lastCall, reqVars, schedVars, running, pcOther, stats, pc,
                   logVars>>

\* InferenceEngine::resume() called by a client thread
Resume ==
    /\ paused' = FALSE
    /\ UNCHANGED <<allocVars, kvVars, handles, lastCall, reqVars, schedVars, running, pcOther, stats, pc,
                   logVars>>

\* the nominal engine with clients that also call shutdown(), pause() and resume()
NextEngineControl ==
    \/ SubmitOnce
    \/ Shutdown
    \/ Pause
    \/ Resume
    \/ Run
    \/ LoopCheck
    \/ LoopExit
    \/ TickAccept
    \/ TickPrefill
    \/ TickDecodeGreedy
    \/ TickEnd

SpecEngineControl ==
    InitEngineRun /\ [][NextEngineControl]_vars /\ WF_pc(EngineAdvances)

(***************************************************************************)
(* Request::setSamplingParams called by the clients, and the engine        *)
(* sampling with the parameters of each request.                           *)
(***************************************************************************)
\* the values of the parameter grid: floats in tenths
Temperatures == {Float(-1), Float(10), Float(30), NaN}

TopKs == {0, 1, 200}

TopPs == {Float(0), Float(10), Float(11)}

RepetitionPenalties == {Float(5), Float(10), Float(30)}

ParamGrid ==
    {SamplingParams(t, k, p, FALSE, rp) :
        t \in Temperatures, k \in TopKs, p \in TopPs, rp \in RepetitionPenalties}

\* a client thread calls req->setSamplingParams(params)
SetSamplingParams(r, params) ==
    LET res == setSamplingParams(samplingParams_[r], params)
    IN  /\ samplingParams_' = [samplingParams_ EXCEPT ![r] = res.params]
        /\ lastCall' = [op |-> "setSamplingParams", arg |-> [r |-> r, params |-> params],
                        ret |-> res.thrown]
        /\ UNCHANGED <<allocVars, kvVars, handles, id_, promptLen, maxTokens_, stopTokens_,
                       cancelled_, notified, state, generatedTokens_, schedVars, engineVars,
                       logVars>>

\* the requests as their constructor leaves them, with the default parameters
InitRequest ==
    /\ InitEngineRun
    /\ maxBatchSize = MaxBatch
    /\ promptLen = [r \in Requests |-> MaxPromptLen]
    /\ maxTokens_ = [r \in Requests |-> MaxMaxTokens]

\* the clients set parameters of the grid on the requests they hold
NextRequest ==
    \E r \in Requests : \E params \in ParamGrid : SetSamplingParams(r, params)

SpecRequest == InitRequest /\ [][NextRequest]_vars

\* ModelBackend::sampleTopK on the logits of forwardImpl: one of the k highest
\* token ids when the scores logits / temperature are ordered, any token id when
\* the division leaves them unordered (temperature 0 or NaN)
sampleTopK(k, temperature) ==
    IF FloatGreater(temperature, Float(0))
    THEN {t \in Tokens : t >= VocabSize - k}
    ELSE Tokens

\* ModelBackend::sampleToken(logits, params): the token ids it can return
sampleToken(params) ==
    IF params.greedy THEN {sampleGreedy}
    ELSE IF params.topK > 0 THEN sampleTopK(params.topK, params.temperature)
    ELSE IF FloatGreater(params.topP, Float(0)) /\ FloatLess(params.topP, Float(10))
    THEN Tokens
    ELSE {sampleGreedy}

\* a decode step in which sampleAndApply passes request->getSamplingParams() of
\* each row to sampleToken
TickDecodeParams ==
    /\ processDecode(Tokens, {})
    /\ \A r \in Elems(batch'.requests) :
          generatedTokens_'[r][Len(generatedTokens_'[r])] \in sampleToken(samplingParams_[r])

\* the parameter sets the clients of the engine use: top-1 sampling, the default
\* top-40 sampling, and a temperature of 3
ClientParams ==
    {SamplingParams(Float(10), 1, Float(10), FALSE, Float(10)),
     DefaultSamplingParams,
     SamplingParams(Float(30), 1, Float(10), FALSE, Float(10))}

\* the parameter sets the clients of the engine use that isValid() accepts
ValidClientParams == {params \in ClientParams : isValidParams(params)}

\* an engine with the largest batch, and requests of the longest prompt and the
\* largest token budget, so that a request is decoded for more than one tick; the
\* clients have set valid parameters on the requests they created
InitEngineParams ==
    /\ EngineStart
    /\ totalBlocks_ = MaxKVBlocks
    /\ maxBatchSize = MaxBatch
    /\ promptLen = [r \in Requests |-> MaxPromptLen]
    /\ maxTokens_ = [r \in Requests |-> MaxMaxTokens]
    /\ stopTokens_ = [r \in Requests |-> {}]
    /\ cancelled_ = [r \in Requests |-> FALSE]
    /\ notified = [r \in Requests |-> <<>>]
    /\ samplingParams_ \in [Requests -> ValidClientParams]

\* a client thread calls setSamplingParams at some point of the run, once
SetSamplingParamsOnce ==
    /\ lastCall = NoCall
    /\ \E r \in Requests : \E params \in ClientParams : SetSamplingParams(r, params)

NextEngineParams ==
    \/ SubmitOnce
    \/ SetSamplingParamsOnce
    \/ Run
    \/ LoopCheck
    \/ LoopExit
    \/ TickAccept
    \/ TickPrefill
    \/ TickDecodeParams
    \/ TickEnd

SpecEngineParams == InitEngineParams /\ [][NextEngineParams]_vars

(***************************************************************************)
(* Properties of the block allocator and the KV cache.                     *)
(***************************************************************************)
RECURSIVE SumBlocks(_)
\* the sum of numBlocks over a set of handles
SumBlocks(hs) ==
    IF hs = {} THEN 0
    ELSE LET h == CHOOSE x \in hs : TRUE IN h.numBlocks + SumBlocks(hs \ {h})

\* the handles of the live sequence entries
LiveEntryHandles == {sequences_[id].handle : id \in DOMAIN sequences_}

\* C1: the block ranges of any two distinct live sequence entries are disjoint,
\* and the range of every live entry lies within [0, totalBlocks).
C1_EntriesDisjointInPool ==
    /\ \A id1, id2 \in DOMAIN sequences_ :
          id1 # id2 =>
             Range(sequences_[id1].handle) \cap Range(sequences_[id2].handle) = {}
    /\ \A id \in DOMAIN sequences_ :
          /\ isValid(sequences_[id].handle)
          /\ Range(sequences_[id].handle) \subseteq 0 .. (totalBlocks_ - 1)

\* two entries are live, after a freeFor has put a block back that was split off
\* and a later allocateFor has taken a block at a higher index
C1_Witness ==
    /\ Cardinality(DOMAIN sequences_) >= 2
    /\ \E id \in DOMAIN sequences_ : sequences_[id].handle.startBlockIndex > 0
    /\ \E i \in DOMAIN freeList_ : freeList_[i] /\ i < totalBlocks_ - 1 /\ ~freeList_[i + 1]

\* C2: freeBlocks() plus the sum of numBlocks over the live handles is totalBlocks,
\* and the blocks marked used are exactly the union of the live handles' ranges.
C2_FreePlusLiveIsTotal ==
    /\ freeBlocks(freeList_) + SumBlocks(handles) = totalBlocks_
    /\ {i \in DOMAIN freeList_ : ~freeList_[i]} = UNION {Range(h) : h \in handles}

\* a free has just returned a block while two other handles stay live
C2_Witness ==
    /\ lastCall.op = "free"
    /\ Cardinality(handles) >= 2
    /\ freeBlocks(freeList_) < totalBlocks_

\* what allocate(n) promises about the handle h it returns
AllocatePost(n, h) ==
    IF n <= 0
    THEN ~isValid(h)
    ELSE \/ /\ isValid(h)
            /\ h.numBlocks = n
            /\ \A i \in Range(h) : i \in DOMAIN freeList_ /\ freeList_[i] /\ ~freeList_'[i]
         \/ /\ ~isValid(h)
            /\ UNCHANGED allocVars

\* C3: allocate(n), n >= 1, returns a valid handle of exactly n blocks whose range
\* was free before and is used after, or an invalid handle leaving the allocator
\* unchanged; allocate(n), n <= 0, returns an invalid handle.
C3_AllocateExactlyN ==
    [][\A n \in -1 .. (MaxTotalBlocks + 1) :
          AllocatorAllocate(n) => AllocatePost(n, lastCall'.ret)]_vars

(***************************************************************************)
(* Properties of the scheduler.                                            *)
(***************************************************************************)
\* position of a state on Pending -> Prefilling -> Decoding -> (Finished | Failed)
StateRank(s) ==
    CASE s = "Pending" -> 0
      [] s = "Prefilling" -> 1
      [] s = "Decoding" -> 2
      [] OTHER -> 3

Terminal == {"Finished", "Failed"}

\* C5: a request's state only moves forward along Pending -> Prefilling ->
\* Decoding -> (Finished | Failed); once Finished or Failed its state never changes
\* again and no token is appended to it, also when a client submits a handle again.
C5_StateOnlyForward ==
    [][\A r \in Requests :
          /\ StateRank(state'[r]) >= StateRank(state[r])
          /\ state[r] \in Terminal =>
                (state'[r] = state[r] /\ generatedTokens_'[r] = generatedTokens_[r])]_vars

\* C7: every request in the active set is in state Prefilling or Decoding.
C7_ActiveArePrefillingOrDecoding ==
    \A i \in 1 .. Len(activeRequests) :
        state[activeRequests[i]] \in {"Prefilling", "Decoding"}

\* C8: |active| <= maxBatchSize always, and an acceptNewRequests call made with
\* |active| < maxBatchSize and pending non-empty strictly decreases |pending| and
\* returns only with pending empty or |active| = maxBatchSize.
C8_AdmissionBoundedAndMaximal ==
    /\ [](Len(activeRequests) <= maxBatchSize)
    /\ [][(AcceptNewRequests /\ Len(activeRequests) < maxBatchSize /\ pendingQueue # <<>>)
             => /\ Len(pendingQueue') < Len(pendingQueue)
                /\ pendingQueue' = <<>> \/ Len(activeRequests') = maxBatchSize]_vars

\* acceptNewRequests has admitted up to the bound and left a request pending
C8_Witness ==
    /\ admitLog # <<>>
    /\ Len(activeRequests) = maxBatchSize
    /\ pendingQueue # <<>>

PrefillBatchPost(b) ==
    /\ b.isPrefill
    /\ Len(b.requests) <= maxBatchSize
    /\ b.batchSize = Len(b.requests)
    /\ \A i \in 1 .. Len(b.requests) :
          /\ b.requests[i] \in Elems(activeRequests)
          /\ state[b.requests[i]] = "Prefilling"
    /\ Len(b.sequenceLengths) = Len(b.requests)
    /\ \A i \in 1 .. Len(b.requests) : b.sequenceLengths[i] = promptLen[b.requests[i]]
    /\ \A i, j \in 1 .. Len(b.requests) :
          i < j => promptLen[b.requests[i]] <= promptLen[b.requests[j]]

\* requests of equal prompt length are in ascending arrival time
TiesByArrival(b) ==
    \A i, j \in 1 .. Len(b.requests) :
        (i < j /\ promptLen[b.requests[i]] = promptLen[b.requests[j]])
           => getArrivalTimestampNs(b.requests[i]) < getArrivalTimestampNs(b.requests[j])

\* C10 as stated: buildPrefillBatch returns at most maxBatchSize active Prefilling
\* requests with their prompt lengths, in ascending prompt length and, among equal
\* prompt lengths, in ascending arrival time.
C10_PrefillBatchOrderedWithTies ==
    [][BuildPrefillBatch => (PrefillBatchPost(batch') /\ TiesByArrival(batch'))]_vars

\* what buildPrefillBatch does keep: everything of C10 except the order among
\* requests of equal prompt length.
C10_PrefillBatchOrdered ==
    [][BuildPrefillBatch => PrefillBatchPost(batch')]_vars

(***************************************************************************)
(* Properties of the engine loop.                                          *)
(***************************************************************************)
\* the engine thread is between two ticks
TickBoundary == pc = "loop"

\* C4: at every tick boundary every request has generated at most maxTokens
\* tokens (maxTokens >= 1), for any requests submitted and any number of ticks.
C4_GeneratedWithinMaxTokens ==
    TickBoundary =>
        \A r \in Requests : getGeneratedLength(generatedTokens_, r) <= getMaxTokens(r)

\* the requests that carry the id of a KV sequence entry
RequestsOfEntry(id) == {r \in Requests : getId(r) = id}

\* C6: at every tick boundary every id with a KV sequence entry belongs to a
\* request in state Prefilling or Decoding, and once every submitted request is
\* Finished or Failed usedBlocks() is back to its value before the submits (0).
C6_EntriesOnlyForRunningRequests ==
    TickBoundary =>
        /\ \A id \in DOMAIN sequences_ :
              \A r \in RequestsOfEntry(id) : state[r] \in {"Prefilling", "Decoding"}
        /\ (submitLog # <<>> /\ \A r \in Elems(submitLog) : state[r] \in Terminal)
              => usedBlocks(freeList_) = 0

(***************************************************************************)
(* Properties of the decode batch, the prefill step and the decode step.   *)
(***************************************************************************)
\* the engine thread builds a decode batch in this step
DecodeTick == TickDecode \/ TickDecodeThrows

\* what buildDecodeBatch promises about the batch b it returns, without the order
\* among requests of equal generated length
DecodeBatchPost(b) ==
    /\ ~b.isPrefill
    /\ Len(b.requests) <= maxBatchSize
    /\ b.batchSize = Len(b.requests)
    /\ \A i \in 1 .. Len(b.requests) :
          /\ b.requests[i] \in Elems(activeRequests)
          /\ state[b.requests[i]] = "Decoding"
    /\ \A i, j \in 1 .. Len(b.requests) :
          i < j => Len(generatedTokens_[b.requests[i]]) <= Len(generatedTokens_[b.requests[j]])

\* requests of equal generated length are in ascending arrival time
DecodeTiesByArrival(b) ==
    \A i, j \in 1 .. Len(b.requests) :
        (i < j /\ Len(generatedTokens_[b.requests[i]]) = Len(generatedTokens_[b.requests[j]]))
           => getArrivalTimestampNs(b.requests[i]) < getArrivalTimestampNs(b.requests[j])

\* C11: at every decode tick buildDecodeBatch returns at most maxBatchSize active
\* requests in state Decoding, ordered by ascending generated length and, among
\* equal generated lengths, by ascending arrival time.
C11_DecodeBatchOrderedWithTies ==
    [][DecodeTick => (DecodeBatchPost(batch') /\ DecodeTiesByArrival(batch'))]_vars

\* what buildDecodeBatch does keep: everything of C11 except the order among
\* requests of equal generated length.
C11_DecodeBatchOrdered ==
    [][DecodeTick => DecodeBatchPost(batch')]_vars

\* the rows of the prefill batch b whose KV allocation failed in this step: each
\* request is prefilled once, so a row has no sequence entry afterwards exactly
\* when its allocation failed
FailedRows(b) == {i \in 1 .. Len(b.requests) : getId(b.requests[i]) \notin DOMAIN sequences_'}

\* C12: during processPrefill a request whose KV allocation fails is marked Failed,
\* removed from the active set and counted in requestsFailed, and never enters
\* Decoding; the rows whose allocation succeeded, and only those, are promoted to
\* Decoding.
C12_FailedAllocationMarksFailed ==
    [][(TickPrefill /\ batch'.requests # <<>>) =>
          /\ \A i \in 1 .. Len(batch'.requests) :
                LET r == batch'.requests[i]
                IN  IF i \in FailedRows(batch')
                    THEN /\ state'[r] = "Failed"
                         /\ r \notin Elems(activeRequests')
                    ELSE state'[r] = "Decoding"
          /\ stats'.requestsFailed = stats.requestsFailed + Cardinality(FailedRows(batch'))]_vars

\* C13: a request that is Decoding and was cancelled by a client is in a terminal
\* state at the end of the next decode tick whose batch holds it, at most one
\* token is appended to it in that tick, and its KV blocks are reclaimed.
C13_CancelledEndsAtNextDecode ==
    [][\A r \in Requests :
          (TickDecode /\ cancelled_[r] /\ state[r] = "Decoding"
              /\ r \in Elems(batch'.requests))
             => /\ state'[r] \in Terminal
                /\ Len(generatedTokens_'[r]) <= Len(generatedTokens_[r]) + 1
                /\ getId(r) \notin DOMAIN sequences_']_vars

\* C14: when the token appended to a request in a decode step is one of its stop
\* tokens, the request is Finished after that step, with that token as its last
\* generated token, also when |generated| < maxTokens; a Finished request receives
\* no further token.
C14_StopTokenFinishes ==
    [][\A r \in Requests :
          (TickDecode /\ state[r] = "Decoding"
              /\ Len(generatedTokens_'[r]) = Len(generatedTokens_[r]) + 1
              /\ generatedTokens_'[r][Len(generatedTokens_'[r])] \in stopTokens_[r])
             => state'[r] = "Finished"]_vars

RECURSIVE SumOver(_, _)
\* the sum of f[r] over the requests of S
SumOver(f, S) ==
    IF S = {} THEN 0
    ELSE LET r == CHOOSE x \in S : TRUE
         IN  f[r] + SumOver(f, S \ {r})

\* the requests the clients have submitted
Submitted == Elems(submitLog)

\* C15: a request that is never cancelled and carries no stop token is Finished
\* exactly when its generated length has reached maxTokens (never earlier, never
\* later, never beyond); tokensProcessed counts the appended tokens and
\* requestsCompleted the finished requests, so once all N submitted requests are
\* Finished, tokensProcessed is the sum of their maxTokens and requestsCompleted
\* is N
C15_FinishedAtMaxTokens ==
    /\ \A r \in Requests :
          /\ getGeneratedLength(generatedTokens_, r) <= getMaxTokens(r)
          /\ getState(state, r) = "Finished"
                <=> getGeneratedLength(generatedTokens_, r) = getMaxTokens(r)
    /\ stats.tokensProcessed =
          SumOver([r \in Requests |-> getGeneratedLength(generatedTokens_, r)], Requests)
    /\ stats.requestsCompleted =
          Cardinality({r \in Requests : getState(state, r) = "Finished"})
    /\ (\A r \in Submitted : getState(state, r) = "Finished")
          => /\ stats.tokensProcessed = SumOver(maxTokens_, Submitted)
             /\ stats.requestsCompleted = Cardinality(Submitted)

\* C16: when sampleToken throws for one row of a decode batch, that request is
\* Failed after the step and has received no token, while every other request of
\* the batch has received its token in the same step.
C16_SamplingFailureFailsRow ==
    [][\A r \in Requests :
          TickDecodeSampling({r})
             => /\ getState(state', r) = "Failed"
                /\ generatedTokens_'[r] = generatedTokens_[r]
                /\ \A q \in Elems(batch'.requests) \ {r} :
                      getGeneratedLength(generatedTokens_', q)
                         = getGeneratedLength(generatedTokens_, q) + 1]_vars

\* a step of mainLoop in which backend->prefill or backend->decode throws
BackendThrows == TickPrefillThrows \/ TickDecodeThrows

\* C17: when backend.prefill or backend.decode throws for a batch of size b,
\* requestsFailed increases by exactly b, the batch is abandoned (no request of
\* it changes state or receives a token) and the loop goes on with the rest of
\* the tick.
C17_BackendFailureCountsBatch ==
    [][BackendThrows =>
          /\ stats'.requestsFailed = stats.requestsFailed + batch'.batchSize
          /\ generatedTokens_' = generatedTokens_
          /\ state' = state
          /\ pc' \in {"decode", "end"}
          /\ running']_vars

\* the calls the token callback of r has received with the given finished flag
Notifications(n, r, finished) == SelectSeq(n[r], LAMBDA c : c[2] = finished)

\* C18: when a request reaches Finished or Failed its token callback has been
\* invoked exactly once with finished=true, and from then on the request
\* receives no token and no further callback.
C18_TerminalCallbackOnce ==
    [][\A r \in Requests :
          /\ (getState(state, r) \notin Terminal /\ getState(state', r) \in Terminal)
                => Len(Notifications(notified', r, TRUE)) = 1
          /\ getState(state, r) \in Terminal
                => /\ generatedTokens_'[r] = generatedTokens_[r]
                   /\ notified'[r] = notified[r]]_vars

\* C19: the tokens delivered to the callback of a request with finished=false
\* are, in order, the tokens generated for it.
C19_CallbackPerToken ==
    \A r \in Requests :
        LET delivered == Notifications(notified, r, FALSE)
        IN  [i \in 1 .. Len(delivered) |-> delivered[i][1]] = generatedTokens_[r]

\* run() eventually returns
RunReturns == (pc # "idle") ~> (pc = "idle")

\* nothing is pending or active, and every submitted request is terminal
Drained(pending, active, st, submitted) ==
    /\ pending = <<>>
    /\ active = <<>>
    /\ \A r \in Elems(submitted) : getState(st, r) \in Terminal

\* C20 as stated: with a backend that never throws, maxTokens >= 1 and no pause
\* or shutdown, run() eventually returns, and when it returns the pending queue
\* and the active set are empty and every request submitted before the return
\* is Finished or Failed.
C20_RunReturnsDrained ==
    /\ RunReturns
    /\ [][LoopExit => Drained(pendingQueue', activeRequests', state', submitLog')]_vars

\* what holds when each handle is submitted once (SpecEngineRunOnce): run()
\* eventually returns, and the pending queue and the active set were empty, and
\* every request submitted until then Finished or Failed, when mainLoop last
\* evaluated hasWork()
RunReturnsDrainedAtLastCheck ==
    /\ RunReturns
    /\ [][(LoopCheck /\ pc' = "exit")
            => Drained(pendingQueue, activeRequests, state, submitLog)]_vars

(***************************************************************************)
(* Properties of shutdown(), pause() and resume().                         *)
(***************************************************************************)
\* shutdown() has been called since mainLoop() set running: only shutdown() clears
\* running while the engine thread is inside the loop
ShutdownRequested == pc \notin {"idle", "exit"} /\ ~running

\* C21: once shutdown() has been called while run() is executing, the main loop
\* exits at its next evaluation of the loop condition, that is after at most the
\* current tick, also when requests are pending or active.
C21_ShutdownExitsLoop ==
    [][(LoopCheck /\ ShutdownRequested) => pc' = "exit"]_vars

\* C22: the main loop exits only when hasWork() is false while not paused, or
\* when shutdown was requested: while requests are pending or active and no
\* shutdown was requested the loop does not exit, whether pause() was called or
\* not, so that the same run() call advances them after resume().
C22_PauseDoesNotExitLoop ==
    [][(LoopCheck /\ hasWork /\ ~ShutdownRequested) => pc' # "exit"]_vars

(***************************************************************************)
(* Properties of the KV cache operations.                                  *)
(***************************************************************************)
\* the block counts n for which allocate(n) succeeds on allocator a
Allocatable(a) == {n \in 1 .. a.total : isValid(allocate(a, n).h)}

\* the KV cache state after allocateFor(id, k) followed by freeFor(id)
RoundTrip(id, k) ==
    LET r == allocateFor(Allocator, sequences_, blockSize_, id, k)
    IN  freeFor(r.a, r.seqs, id)

\* C23: in every reachable KV cache state, for a fresh id and every k with
\* 0 <= k <= totalBlocks * blockSize, allocateFor(id, k) followed by freeFor(id)
\* leaves the entry map and the free map as they were, and the same allocations
\* succeed afterwards as before.
C23_AllocateFreeRoundTrip ==
    \A id \in KVIds \ DOMAIN sequences_ :
        \A k \in 0 .. (totalBlocks_ * blockSize_) :
            /\ RoundTrip(id, k).seqs = sequences_
            /\ RoundTrip(id, k).a.fl = freeList_
            /\ Allocatable(RoundTrip(id, k).a) = Allocatable(Allocator)

\* a cache with a live entry in which a fresh id can be given blocks that the
\* allocator has to split off a larger free block
C23_Witness ==
    /\ sequences_ # <<>>
    /\ \E id \in KVIds \ DOMAIN sequences_ :
          \E k \in 1 .. (totalBlocks_ * blockSize_) :
             LET r == allocateFor(Allocator, sequences_, blockSize_, id, k)
             IN  /\ r.ok
                 /\ \E size \in DOMAIN buddyFreeLists_ :
                       Len(ListAt(r.a.lists, size)) > Len(buddyFreeLists_[size])

\* handles for which isValid() is false
InvalidHandles ==
    {KVHandle(start, n) : start \in -1 .. totalBlocks_, n \in -1 .. 0}
       \cup {KVHandle(-1, n) : n \in 1 .. totalBlocks_}

\* C24: in every reachable KV cache state the operations on an id without an
\* entry, and free on an invalid handle, change nothing: freeFor(unknown) and
\* free(invalidHandle) leave the entry map and the allocator as they are,
\* appendToken(unknown) returns false and leaves the entry map as it is, and
\* getKView / getVView(unknown) return an invalid view.
C24_UnknownIdIsNoOp ==
    /\ \A id \in KVIds \ DOMAIN sequences_ :
          /\ freeFor(Allocator, sequences_, id) = [a |-> Allocator, seqs |-> sequences_]
          /\ appendToken(sequences_, id) = [seqs |-> sequences_, ok |-> FALSE]
          /\ ~getKView(sequences_, id).valid
          /\ ~getVView(sequences_, id).valid
    /\ \A h \in InvalidHandles : free(Allocator, h) = Allocator

\* a cache with a live entry, an id that has none, and blocks in use
C24_Witness ==
    /\ sequences_ # <<>>
    /\ KVIds \ DOMAIN sequences_ # {}
    /\ usedBlocks(freeList_) > 0
    /\ \E id \in DOMAIN sequences_ : sequences_[id].tokensUsed < sequences_[id].maxAllowed

(***************************************************************************)
(* Properties of the allocator's fragmentation metric.                     *)
(***************************************************************************)
\* C25: once every handle that allocate returned has been freed again, a call of
\* fragmentation() returns, and returns 0: the longest free run is all that is
\* free.
C25_FragmentationZeroAfterRelease ==
    [][(AllocatorFragmentation /\ handles = {})
          => /\ lastCall'.ret.outcome = "returns"
             /\ lastCall'.ret.largest = lastCall'.ret.free]_vars

\* the value fragmentation() computes after a full release is 0, whenever the
\* call gets as far as returning it
FragmentationValueZeroAfterRelease ==
    handles = {} => largestContiguous(freeList_) = freeBlocks(freeList_)

(***************************************************************************)
(* Properties of the KV cache entries.                                     *)
(***************************************************************************)
\* the least n with n * blockSize >= tokens: the ceiling of tokens / blockSize
CeilDiv(tokens, blockSize) ==
    CHOOSE n \in 0 .. tokens : n * blockSize >= tokens /\ \A m \in 0 .. (n - 1) : m * blockSize < tokens

\* the parts of C26 other than the size of the handle: allocateFor asks the
\* allocator for n = ceil(initialTokens / blockSize) blocks; a successful call
\* adds exactly the entry of id, with tokensUsed = initialTokens and
\* maxAllowed = n * blockSize; a failing call changes neither the entry map nor
\* the allocator, and the call fails exactly when id has an entry or the
\* allocator has no handle for n blocks
AllocateForPost(id, initialTokens) ==
    LET r == allocateFor(Allocator, sequences_, blockSize_, id, initialTokens)
        n == CeilDiv(initialTokens, blockSize_)
        h == allocate(Allocator, n)
    IN  /\ r.ok <=> (id \notin DOMAIN sequences_ /\ isValid(h.h))
        /\ r.ok => /\ DOMAIN r.seqs = DOMAIN sequences_ \cup {id}
                    /\ \A x \in DOMAIN sequences_ : r.seqs[x] = sequences_[x]
                    /\ r.seqs[id].handle = h.h
                    /\ r.seqs[id].tokensUsed = initialTokens
                    /\ r.seqs[id].maxAllowed = n * blockSize_
                    /\ r.a = h.a
        /\ ~r.ok => r.seqs = sequences_ /\ r.a = Allocator

AllocateForStoresEntry ==
    \A id \in KVIds : \A k \in 0 .. MaxKVTokens : AllocateForPost(id, k)

\* C26: allocateFor(id, initialTokens) requests n = ceil(initialTokens /
\* blockSize) blocks; on success it stores an entry with tokensUsed =
\* initialTokens and maxAllowed = n * blockSize = handle.numBlocks * blockSize
\* and returns true; it returns false and leaves the entry map and the allocator
\* unchanged when id has an entry or the allocator returns no handle.
C26_AllocateForPost ==
    \A id \in KVIds : \A k \in 0 .. MaxKVTokens :
       LET r == allocateFor(Allocator, sequences_, blockSize_, id, k)
       IN  /\ AllocateForPost(id, k)
           /\ r.ok => r.seqs[id].maxAllowed = r.seqs[id].handle.numBlocks * blockSize_

\* C27: appendToken(id) adds one to tokensUsed and returns true exactly when the
\* entry of id has tokensUsed < maxAllowed, and otherwise returns false and
\* changes nothing; every live entry of a cache driven by allocateFor,
\* appendToken and freeFor has 0 <= tokensUsed <= maxAllowed, one entry per id.
C27_TokensUsedWithinMaxAllowed ==
    /\ DOMAIN sequences_ \subseteq KVIds
    /\ \A id \in DOMAIN sequences_ :
          /\ 0 <= sequences_[id].tokensUsed
          /\ sequences_[id].tokensUsed <= sequences_[id].maxAllowed
    /\ \A id \in DOMAIN sequences_ :
          LET r == appendToken(sequences_, id)
              e == sequences_[id]
          IN  /\ r.ok <=> e.tokensUsed < e.maxAllowed
              /\ DOMAIN r.seqs = DOMAIN sequences_
              /\ \A x \in DOMAIN sequences_ \ {id} : r.seqs[x] = sequences_[x]
              /\ r.seqs[id].handle = e.handle
              /\ r.seqs[id].maxAllowed = e.maxAllowed
              /\ r.seqs[id].tokensUsed = IF r.ok THEN e.tokensUsed + 1 ELSE e.tokensUsed

\* two live entries: one that appendToken has filled to maxAllowed and now
\* refuses, one with room that it accepts
C27_Witness ==
    \E full, open \in DOMAIN sequences_ :
       /\ sequences_[full].tokensUsed = sequences_[full].maxAllowed
       /\ ~appendToken(sequences_, full).ok
       /\ sequences_[open].tokensUsed < sequences_[open].maxAllowed
       /\ appendToken(sequences_, open).ok

(***************************************************************************)
(* Properties of the sampling parameters of a request.                     *)
(***************************************************************************)
\* the parameter sets the specification accepts: temperature >= 0, topK >= 1,
\* 0 < topP <= 1, repetitionPenalty >= 1
AcceptedParams(params) ==
    /\ FloatLessEq(Float(0), params.temperature)
    /\ params.topK >= 1
    /\ FloatLess(Float(0), params.topP)
    /\ FloatLessEq(params.topP, Float(10))
    /\ FloatLessEq(Float(10), params.repetitionPenalty)

\* the step is a call of setSamplingParams on request r
SetSamplingParamsCalled(r) ==
    /\ lastCall' # lastCall
    /\ lastCall'.op = "setSamplingParams"
    /\ lastCall'.arg.r = r

\* C28: setSamplingParams(p) stores p exactly when temperature >= 0, topK >= 1,
\* 0 < topP <= 1 and repetitionPenalty >= 1, and throws the parameter-validation
\* error for every other p of the grid.
C28_SetSamplingParamsValidates ==
    [][\A r \in Requests :
          SetSamplingParamsCalled(r)
             => IF AcceptedParams(lastCall'.arg.params)
                THEN /\ lastCall'.ret = "none"
                     /\ samplingParams_'[r] = lastCall'.arg.params
                ELSE lastCall'.ret = "invalid_argument"]_vars

\* C29: a setSamplingParams call that throws leaves the parameters and every
\* other field of every request as they were, so the request is submitted and
\* run with the parameters it had.
C29_RejectedCallChangesNothing ==
    [][\A r \in Requests :
          (SetSamplingParamsCalled(r) /\ lastCall'.ret = "invalid_argument")
             => /\ samplingParams_' = samplingParams_
                /\ reqVars' = reqVars
                /\ schedVars' = schedVars]_vars

\* a rejected call on a request that holds parameters an earlier call stored: it
\* still holds them, and is still Pending, ready for submitRequest
C29_Witness ==
    /\ lastCall.op = "setSamplingParams"
    /\ lastCall.ret = "invalid_argument"
    /\ ~isValidParams(lastCall.arg.params)
    /\ samplingParams_[lastCall.arg.r] # DefaultSamplingParams
    /\ samplingParams_[lastCall.arg.r] \in ParamGrid
    /\ state[lastCall.arg.r] = "Pending"

\* a request on which a setSamplingParams call was rejected has been submitted
\* and has run to its token budget, with the parameters it had
RejectedRequestFinished ==
    /\ lastCall.op = "setSamplingParams"
    /\ lastCall.ret = "invalid_argument"
    /\ state[lastCall.arg.r] = "Finished"
    /\ Len(generatedTokens_[lastCall.arg.r]) = maxTokens_[lastCall.arg.r]
    /\ samplingParams_[lastCall.arg.r] # lastCall.arg.params
    /\ isValidParams(samplingParams_[lastCall.arg.r])

\* C30: a setSamplingParams call on a request that has left Pending does not
\* change the parameters the engine samples with.
C30_ParamsFixedAfterAdmission ==
    [][\A r \in Requests :
          (SetSamplingParamsCalled(r) /\ state[r] # "Pending")
             => samplingParams_'[r] = samplingParams_[r]]_vars

(***************************************************************************)
(* Properties of the engine's use of the KV cache.                         *)
(***************************************************************************)
\* the step is a decode step that sampled a token for request r and did not
\* finish it
DecodeContinues(r) ==
    /\ pc = "decode"
    /\ pc' = "end"
    /\ Len(generatedTokens_'[r]) = Len(generatedTokens_[r]) + 1
    /\ state'[r] # "Finished"

\* C31: a decode step in which a request continues has called kv.appendToken for
\* it: the request's usedTokens has grown by one, or, appendToken having
\* returned false, the request is Failed and its KV entry is gone.
C31_DecodeAppendsToken ==
    [][\A r \in Requests :
          (DecodeContinues(r) /\ getId(r) \in DOMAIN sequences_)
             => \/ /\ state'[r] = "Decoding"
                   /\ usedTokens(sequences_', getId(r)) = usedTokens(sequences_, getId(r)) + 1
                \/ /\ state'[r] = "Failed"
                   /\ getId(r) \notin DOMAIN sequences_']_vars

(***************************************************************************)
(* Properties of the scheduler's state transitions.                        *)
(***************************************************************************)
\* C32: markRequestReady changes a request only from Prefilling to Decoding,
\* markRequestFinished only from Decoding to Finished, moving it to the finished
\* set, and markRequestFailed only from Prefilling or Decoding to Failed, taking
\* it out of the active set; no step takes a request from Prefilling to Finished.
C32_TransitionsFromNamedStates ==
    [][\A r \in Requests :
          /\ \A requestId \in RequestIds :
                /\ (MarkRequestReady(requestId) /\ state'[r] # state[r])
                      => state[r] = "Prefilling" /\ state'[r] = "Decoding"
                /\ (MarkRequestFinished(requestId) /\ r \in Elems(activeRequests)
                        /\ getId(r) = requestId)
                      => /\ state[r] = "Decoding"
                         /\ state'[r] = "Finished"
                         /\ r \in Elems(finishedRequests')
                /\ (MarkRequestFailed(requestId) /\ r \in Elems(activeRequests)
                        /\ getId(r) = requestId)
                      => /\ state[r] \in {"Prefilling", "Decoding"}
                         /\ state'[r] = "Failed"
                         /\ r \notin Elems(activeRequests')
          /\ ~(state[r] = "Prefilling" /\ state'[r] = "Finished")]_vars

(***************************************************************************)
(* The mutexes of the allocator and of the KV cache: what each public      *)
(* operation locks, in the order its thread reaches the lock_guards.       *)
(***************************************************************************)
\* std::lock_guard<std::mutex> guard(m) around the acquisitions of the calls made
\* while it is in scope
Guarded(m, inner) == <<[op |-> "lock", m |-> m]>> \o inner \o <<[op |-> "unlock", m |-> m]>>

\* the lock and unlock events of one call of a public operation on an allocator
\* of `total` blocks, with arguments that pass the checks made before locking
LockEvents(operation, total) ==
    LET freeBlocksEvents == Guarded("allocator", <<>>)
        usedBlocksEvents == Guarded("allocator", <<>>)
        fragmentationEvents ==
            Guarded("allocator", IF total = 0 THEN <<>> ELSE freeBlocksEvents)
    IN  CASE operation = "allocate" -> Guarded("allocator", <<>>)
          [] operation = "free" -> Guarded("allocator", <<>>)
          [] operation = "freeBlocks" -> freeBlocksEvents
          [] operation = "usedBlocks" -> usedBlocksEvents
          [] operation = "fragmentation" -> fragmentationEvents
          [] operation = "dumpBlockMap" ->
                Guarded("allocator",
                        usedBlocksEvents \o freeBlocksEvents \o fragmentationEvents)
          [] operation = "allocateFor" -> Guarded("kv", Guarded("allocator", <<>>))
          [] operation = "freeFor" -> Guarded("kv", Guarded("allocator", <<>>))
          [] operation = "appendToken" -> Guarded("kv", <<>>)
          [] operation = "getFragmentation" -> fragmentationEvents
          [] operation = "dumpCacheStats" ->
                Guarded("kv", usedBlocksEvents \o freeBlocksEvents \o fragmentationEvents)

PublicOperations ==
    {"allocate", "free", "freeBlocks", "usedBlocks", "fragmentation", "dumpBlockMap",
     "allocateFor", "freeFor", "appendToken", "getFragmentation", "dumpCacheStats"}

\* the mutexes the thread holds after the first n events
HeldAfter(events, n) ==
    {m \in {"kv", "allocator"} :
        \E i \in 1 .. n :
           /\ events[i] = [op |-> "lock", m |-> m]
           /\ \A j \in (i + 1) .. n : events[j] # [op |-> "unlock", m |-> m]}

\* the thread locks a mutex it already holds
Relocks(events) ==
    \E n \in 1 .. Len(events) :
       events[n].op = "lock" /\ events[n].m \in HeldAfter(events, n - 1)

\* the pairs <<held, acquired>> of the nested acquisitions
NestedOrders(events) ==
    {<<p[2], events[p[1]].m>> :
        p \in {q \in (1 .. Len(events)) \X {"kv", "allocator"} :
                  events[q[1]].op = "lock" /\ q[2] \in HeldAfter(events, q[1] - 1)}}

\* C33: every public operation of the allocator and of the KV cache locks each
\* mutex at most once at a time, so it returns, and the only nested acquisition
\* is the allocator mutex taken while the KV mutex is held.
C33_MutexesDeadlockFree ==
    \A operation \in PublicOperations :
       /\ ~Relocks(LockEvents(operation, totalBlocks_))
       /\ NestedOrders(LockEvents(operation, totalBlocks_)) \subseteq {<<"kv", "allocator">>}
       /\ operation = "fragmentation" =>
              \A res \in FragmentationOutcomes(Allocator) : res.outcome = "returns"

\* the operations that lock no mutex twice
OperationsWithoutRelock ==
    {operation \in PublicOperations : ~Relocks(LockEvents(operation, totalBlocks_))} =
       {"allocate", "free", "freeBlocks", "usedBlocks", "allocateFor", "freeFor", "appendToken"}

(***************************************************************************)
(* The K / V buffers: [numLayers, totalBlocks, numHeads, blockSize,        *)
(* headDim], and the views handed out over them.                           *)
(***************************************************************************)
MaxLayers == 2
MaxHeads == 2
MaxHeadDim == 2

\* the shapes a KVCache is constructed with
CacheShapes ==
    [numLayers : 1 .. MaxLayers, numHeads : 1 .. MaxHeads, headDim : 1 .. MaxHeadDim]

\* KVCache::getKBuffer / getVBuffer(blockIndex, layer, head, offset): the index
\* into K_ / V_ of the pointer returned
getKBuffer(shape, total, blockSize, blockIndex, layer, head, offset) ==
    layer * (total * shape.numHeads * blockSize * shape.headDim)
       + blockIndex * (shape.numHeads * blockSize * shape.headDim)
       + head * (blockSize * shape.headDim)
       + offset * shape.headDim

\* the index of token t of the sequence with handle h, for a layer and a head
TokenIndex(shape, h, layer, head, t) ==
    getKBuffer(shape, totalBlocks_, blockSize_,
               h.startBlockIndex + (t \div blockSize_), layer, head, t % blockSize_)

\* the indices a view {data, [numHeads, tokensUsed, headDim]} of getKView covers,
\* data being getKBuffer(startBlockIndex, layer, 0, 0)
ViewIndices(shape, e, layer) ==
    LET data == getKBuffer(shape, totalBlocks_, blockSize_, e.handle.startBlockIndex, layer, 0, 0)
    IN  data .. (data + shape.numHeads * e.tokensUsed * shape.headDim - 1)

\* the indices of the blocks of handle h in a layer
BlockIndices(shape, h, layer) ==
    LET first == getKBuffer(shape, totalBlocks_, blockSize_, h.startBlockIndex, layer, 0, 0)
    IN  first .. (first + h.numBlocks * shape.numHeads * blockSize_ * shape.headDim - 1)

\* the view of every live entry lies within the blocks of its handle
ViewWithinBlocks ==
    \A shape \in CacheShapes : \A id \in DOMAIN sequences_ :
       \A layer \in 0 .. (shape.numLayers - 1) :
          ViewIndices(shape, sequences_[id], layer)
             \subseteq BlockIndices(shape, sequences_[id].handle, layer)

\* C34: for every layer and head, consecutive tokens of a sequence are headDim
\* apart in the buffer, across block boundaries and for several heads too, and
\* the view over a sequence covers only indices of that sequence's blocks.
C34_ConsecutiveTokensAdjacent ==
    /\ \A shape \in CacheShapes : \A id \in DOMAIN sequences_ :
          \A layer \in 0 .. (shape.numLayers - 1) : \A head \in 0 .. (shape.numHeads - 1) :
             \A t \in 0 .. (sequences_[id].tokensUsed - 2) :
                TokenIndex(shape, sequences_[id].handle, layer, head, t + 1)
                   - TokenIndex(shape, sequences_[id].handle, layer, head, t) = shape.headDim
    /\ ViewWithinBlocks

\* consecutive tokens are headDim apart when they share a block, or when the
\* cache has a single head
AdjacentWithinBlockOrSingleHead ==
    \A shape \in CacheShapes : \A id \in DOMAIN sequences_ :
       \A layer \in 0 .. (shape.numLayers - 1) : \A head \in 0 .. (shape.numHeads - 1) :
          \A t \in 0 .. (sequences_[id].tokensUsed - 2) :
             (shape.numHeads = 1 \/ (t + 1) % blockSize_ # 0)
                => TokenIndex(shape, sequences_[id].handle, layer, head, t + 1)
                      - TokenIndex(shape, sequences_[id].handle, layer, head, t) = shape.headDim

(***************************************************************************)
(* Properties of the allocator's free lists.                               *)
(***************************************************************************)
\* C35: every block counted as free can be allocated: whenever freeBlocks() >= 1,
\* allocate(1) returns a valid handle, for pools of any size.
C35_FreeBlocksAllocatable ==
    freeBlocks(freeList_) >= 1 => isValid(allocate(Allocator, 1).h)

\* the buddy free lists hold the same blocks as those of a new allocator (the
\* order within a list aside, and an empty list being the same as none)
ListsAsConstructed ==
    \A size \in 1 .. totalBlocks_ :
       Elems(ListAt(buddyFreeLists_, size)) = Elems(ListAt(initBuddySystem(totalBlocks_), size))
          /\ Len(ListAt(buddyFreeLists_, size)) = Len(ListAt(initBuddySystem(totalBlocks_), size))

\* C36: once every handle that allocate returned has been freed, in whatever
\* order, the buddy free lists are back in their initial configuration, and in a
\* pool whose size is a power of two allocate(totalBlocks) succeeds.
C36_FullReleaseRestoresLists ==
    handles = {} =>
       /\ ListsAsConstructed
       /\ totalBlocks_ \in PowersUpTo(1, totalBlocks_)
             => allocate(Allocator, totalBlocks_).h = KVHandle(0, totalBlocks_)

(***************************************************************************)
(* Two threads calling InferenceEngine::run() on the same engine.  The     *)
(* steps of the first thread are Run .. TickEnd above; the second thread   *)
(* reads running in run() and writes it in mainLoop() in separate steps,   *)
(* as the code does.  The ticks of the second loop act on the same         *)
(* scheduler and cache as those of the first and are not repeated here:    *)
(* the second thread stays in its loop until the loop condition fails.     *)
(***************************************************************************)

\* run() on the second thread: if (running) return; else go on to mainLoop()
OtherRunCheck ==
    /\ pcOther = "idle"
    /\ IF running
       THEN pcOther' = "idle"
       ELSE pcOther' = "enter"
    /\ UNCHANGED <<allocVars, kvVars, handles, lastCall, reqVars, schedVars, running, paused,
                   stats, pc, logVars>>

\* mainLoop() on the second thread: running = true
OtherMainLoopEnter ==
    /\ pcOther = "enter"
    /\ running' = TRUE
    /\ pcOther' = "loop"
    /\ UNCHANGED <<allocVars, kvVars, handles, lastCall, reqVars, schedVars, paused, stats, pc,
                   logVars>>

\* the while condition fails on the second thread: running = false, run() returns
OtherMainLoopExit ==
    /\ pcOther = "loop"
    /\ ~(hasWork /\ ~paused)
    /\ running' = FALSE
    /\ pcOther' = "idle"
    /\ UNCHANGED <<allocVars, kvVars, handles, lastCall, reqVars, schedVars, paused, stats, pc,
                   logVars>>

NextEngineTwoCallers ==
    \/ SubmitOnce
    \/ Run
    \/ LoopCheck
    \/ LoopExit
    \/ TickAccept
    \/ TickPrefill
    \/ TickDecodeGreedy
    \/ TickEnd
    \/ OtherRunCheck
    \/ OtherMainLoopEnter
    \/ OtherMainLoopExit

SpecEngineTwoCallers ==
    InitEngineRun /\ [][NextEngineTwoCallers]_vars /\ WF_pc(EngineAdvances)

\* C37: when two threads call run() on the same engine, at most one of them is
\* inside mainLoop() at any time
C37_AtMostOneMainLoop == ~(pc # "idle" /\ pcOther = "loop")

\* a call of run() that reads running after the other thread's mainLoop() has set
\* it, and before that loop exits, returns without entering mainLoop()
LateCallerReturns ==
    [][(pcOther = "idle" /\ running) => pcOther' = "idle"]_vars

\* C38: the active set never holds two entries with the same request id, for any
\* sequence of submitRequest and acceptNewRequests calls
C38_ActiveEntriesDistinct ==
    \A i, j \in 1 .. Len(activeRequests) :
        i # j => getId(activeRequests[i]) # getId(activeRequests[j])

(***************************************************************************)
(* The batch of a throwing backend call and the batch of the next tick.    *)
(***************************************************************************)
\* the engine with a greedy sampler, a backend whose prefill and decode may throw,
\* and clients that may pass any handle again
NextEngineThrows ==
    \/ SubmitRequest
    \/ Run
    \/ LoopCheck
    \/ LoopExit
    \/ TickAccept
    \/ TickPrefill
    \/ TickPrefillThrows
    \/ TickDecodeGreedy
    \/ TickDecodeThrows
    \/ TickEnd

\* requests with the largest token budget, so that each is decoded for more than
\* one tick
InitEngineThrows == InitEngineRun /\ maxTokens_ = [r \in Requests |-> MaxMaxTokens]

SpecEngineThrows ==
    InitEngineThrows /\ [][NextEngineThrows]_vars /\ WF_pc(EngineAdvances)

\* a throwing backend->prefill / backend->decode leaves the requests of its batch
\* as they are: same state, same tokens, still active, no KV entry added
ThrownBatchUntouched ==
    BackendThrows =>
        /\ activeRequests' = activeRequests
        /\ sequences_' = sequences_
        /\ \A r \in Elems(batch'.requests) :
              state'[r] = state[r] /\ generatedTokens_'[r] = generatedTokens_[r]

\* the prefill (decode) stage of a tick that follows a throwing prefill (decode)
PrefillAfterThrow == pc = "prefill" /\ pc' = "decode" /\ thrownBatch.prefill # {}

DecodeAfterThrow == pc = "decode" /\ pc' = "end" /\ thrownBatch.decode # {}

\* C39: when backend.prefill (or backend.decode) throws, no request of the batch
\* changes state, leaves the active set, gains a token or a KV entry, and the next
\* tick's buildPrefillBatch (buildDecodeBatch) selects exactly the same requests
C39_SameBatchSelectedAgain ==
    [][/\ ThrownBatchUntouched
       /\ PrefillAfterThrow => Elems(batch'.requests) = thrownBatch.prefill
       /\ DecodeAfterThrow => Elems(batch'.requests) = thrownBatch.decode]_vars

\* the requests of the throwing batch are untouched and are all selected again on
\* the next tick, possibly together with requests that reached the batch's state
\* since: holds with clients that pass each handle once
C39_ThrownRequestsSelectedAgain ==
    [][/\ ThrownBatchUntouched
       /\ PrefillAfterThrow => thrownBatch.prefill \subseteq Elems(batch'.requests)
       /\ DecodeAfterThrow => thrownBatch.decode \subseteq Elems(batch'.requests)]_vars

(***************************************************************************)
(* EngineStats against the requests.                                       *)
(***************************************************************************)
\* the requests in state Finished, and the requests admitted so far
FinishedRequests == {r \in Requests : state[r] = "Finished"}

AdmittedRequests == Elems(admitLog)

\* no counter of EngineStats ever decreases
CountersMonotonic ==
    [][/\ stats'.tokensProcessed >= stats.tokensProcessed
       /\ stats'.requestsCompleted >= stats.requestsCompleted
       /\ stats'.requestsFailed >= stats.requestsFailed]_vars

\* requestsCompleted is the number of requests in state Finished: holds with
\* clients that pass each handle once
CompletedCountsFinished == stats.requestsCompleted = Cardinality(FinishedRequests)

\* C40: the engine counters never decrease, requestsCompleted is the number of
\* requests in state Finished, and requestsCompleted + requestsFailed is at most
\* the number of requests admitted so far, also when the backend throws on
\* consecutive ticks
C40_CountersConsistent ==
    /\ CountersMonotonic
    /\ [](/\ CompletedCountsFinished
          /\ stats.requestsCompleted + stats.requestsFailed
                <= Cardinality(AdmittedRequests))
====
